---- MODULE Spec2Model ----
(***************************************************************************)
(* A model of the provisioner backends of mesos                            *)
(* (src/slave/containerizer/mesos/provisioner/backends): the Copy backend  *)
(* (copy.cpp, POSIX variant) and the Windows layer backend (wclayer.cpp),  *)
(* with the stout string and path helpers they compute their paths with    *)
(* (strings.hpp, path.hpp).                                                *)
(*                                                                         *)
(* Strings are sequences of one-character strings, so that prefix tests,   *)
(* substr, dirname, basename and join are computed as the code computes    *)
(* them.  The file system is a function from canonical paths (sequences of *)
(* names) to nodes; a path string handed to a system call is resolved      *)
(* through ".", ".." and symbolic links.                                   *)
(***************************************************************************)
EXTENDS Integers, Sequences, FiniteSets, TLC

(***************************************************************************)
(* Bounds of the model.                                                    *)
(***************************************************************************)
\* the longest layer stack a provision is called with
MaxLayers == 2
\* the number of operations (provision, destroy) dispatched in one run
MaxOps == 1
\* the same, in the runs that follow a rootfs through provision and destroy
MaxLifeOps == 3
\* the layers of a stack in the runs with deeper stacks
MaxDeepLayers == 3
\* the number of operations dispatched to the backend in a run of SpecPaths
MaxPathOps == 2
\* the number of operations dispatched to the two instances in a run of
\* SpecPair
MaxPairOps == 2
\* the longest path dirname is applied to
MaxPathLen == 5
\* the longest string and the longest substring strings::remove is applied to
MaxFromLen == 4
MaxSubLen == 2
\* the number of iterations of the loop of strings::remove that are followed
MaxIterations == 6
\* the number of calls of os::mkdtemp in a run, and the largest value the
\* random generator returns
MaxTempCalls == 2
MaxDraw == 2

(***************************************************************************)
(* std::basic_string: the operations the helpers use.  size_t arithmetic   *)
(* is modular; the modulus stands for 2^64 (every string here is far       *)
(* shorter than it).                                                       *)
(***************************************************************************)
SizeMod == 2^16
npos == SizeMod - 1

Min(a, b) == IF a < b THEN a ELSE b

\* s.substr(pos): the characters from 0-based position pos on
Substr(s, pos) == SubSeq(s, pos + 1, Len(s))

\* s.substr(pos, n)
SubstrN(s, pos, n) == SubSeq(s, pos + 1, Min(Len(s), pos + n))

\* s.find(sub): the first 0-based position where sub occurs, or npos
Find(s, sub) ==
  LET hits == {i \in 0..(Len(s) - Len(sub)) : SubSeq(s, i + 1, i + Len(sub)) = sub}
  IN  IF hits = {} THEN npos ELSE CHOOSE i \in hits : \A j \in hits : i <= j

\* s.rfind(sub): the last position where sub occurs, or npos
RFind(s, sub) ==
  LET hits == {i \in 0..(Len(s) - Len(sub)) : SubSeq(s, i + 1, i + Len(sub)) = sub}
  IN  IF hits = {} THEN npos ELSE CHOOSE i \in hits : \A j \in hits : i >= j

\* s.find_last_of(c, pos): the last position <= pos holding c, or npos
FindLastOf(s, c, pos) ==
  LET hits == {i \in 0..Min(pos, Len(s) - 1) : s[i + 1] = c}
  IN  IF hits = {} THEN npos ELSE CHOOSE i \in hits : \A j \in hits : i >= j

\* s.find_last_not_of(c, pos): the last position <= pos not holding c, or npos
FindLastNotOf(s, c, pos) ==
  LET hits == {i \in 0..Min(pos, Len(s) - 1) : s[i + 1] # c}
  IN  IF hits = {} THEN npos ELSE CHOOSE i \in hits : \A j \in hits : i >= j

\* strings::startsWith
StartsWith(s, prefix) ==
  Len(s) >= Len(prefix) /\ SubSeq(s, 1, Len(prefix)) = prefix

\* strings::endsWith
EndsWith(s, suffix) ==
  Len(s) >= Len(suffix) /\ SubSeq(s, Len(s) - Len(suffix) + 1, Len(s)) = suffix

\* the loop of strings::remove in mode ANY: erase the first occurrence until
\* there is none
RECURSIVE RemoveAny(_, _)
RemoveAny(result, sub) ==
  LET index == Find(result, sub)
  IN  IF index = npos THEN result
      ELSE RemoveAny(SubSeq(result, 1, index) \o Substr(result, index + Len(sub)), sub)

\* strings::remove(from, substring, mode)
Remove(from, sub, mode) ==
  CASE mode = "PREFIX" ->
         IF Find(from, sub) = 0 THEN Substr(from, Len(sub)) ELSE from
    [] mode = "SUFFIX" ->
         IF RFind(from, sub) = (Len(from) - Len(sub)) % SizeMod
           THEN SubstrN(from, 0, (Len(from) - Len(sub)) % SizeMod)
           ELSE from
    [] OTHER -> RemoveAny(from, sub)

(***************************************************************************)
(* path.hpp                                                                *)
(***************************************************************************)
\* os::PATH_SEPARATOR (POSIX)
SEP == "/"

FILE_URI == <<"f", "i", "l", "e", ":", "/", "/">>

\* path::join(path1, path2)
Join(path1, path2) ==
  Remove(path1, <<SEP>>, "SUFFIX") \o <<SEP>> \o Remove(path2, <<SEP>>, "PREFIX")

\* path::join(path1, path2, path3): join(path1, join(path2, path3))
Join3(path1, path2, path3) == Join(path1, Join(path2, path3))

\* basic_path's constructor: the value without an optional "file://"
PathValue(path) == Remove(path, FILE_URI, "PREFIX")

\* basic_path::basename
Basename(value) ==
  IF value = <<>> THEN <<".">>
  ELSE LET end0 == Len(value) - 1
           trailing == value[end0 + 1] = SEP
           end == IF trailing THEN FindLastNotOf(value, SEP, end0) ELSE end0
       IN  IF trailing /\ end = npos THEN <<SEP>>
           ELSE LET found == FindLastOf(value, SEP, end)
                    start == IF found = npos THEN 0 ELSE found + 1
                IN  SubstrN(value, start, end + 1 - start)

\* basic_path::dirname that does not skip the trailing separators
DirnameKeepsTrailing(value) ==
  IF value = <<>> THEN <<".">>
  ELSE LET end2 == FindLastOf(value, SEP, Len(value) - 1)
       IN  IF end2 = npos THEN <<".">>
           ELSE IF end2 = 0 THEN <<SEP>>
           ELSE LET end3 == FindLastNotOf(value, SEP, end2)
                IN  IF end3 = npos THEN <<SEP>>
                    ELSE SubstrN(value, 0, end3 + 1)

\* basic_path::dirname
Dirname(value) ==
  IF value = <<>> THEN <<".">>
  ELSE LET end0 == Len(value) - 1
           end1 == IF value[end0 + 1] = SEP
                     THEN FindLastNotOf(value, SEP, end0) ELSE end0
           end2 == FindLastOf(value, SEP, end1)
       IN  IF end2 = npos THEN <<".">>
           ELSE IF end2 = 0 THEN <<SEP>>
           ELSE LET end3 == FindLastNotOf(value, SEP, end2)
                IN  IF end3 = npos THEN <<SEP>>
                    ELSE SubstrN(value, 0, end3 + 1)

(***************************************************************************)
(* The file system.  A canonical path is a sequence of names from the      *)
(* root; fs maps the canonical paths that exist to their nodes.  The root  *)
(* directory <<>> always exists and is not in the domain.                  *)
(***************************************************************************)
DirNode == [kind |-> "dir", data |-> <<>>]
FileNode(content) == [kind |-> "file", data |-> content]
LinkNode(target) == [kind |-> "link", data |-> target]

DOT == <<".">>
DOTDOT == <<".", ".">>

\* the longest chain of symbolic links a lookup follows (ELOOP beyond it)
MaxLinkDepth == 3

IsPrefix(p, q) == Len(p) <= Len(q) /\ SubSeq(q, 1, Len(p)) = p

Parent(p) == IF p = <<>> THEN <<>> ELSE SubSeq(p, 1, Len(p) - 1)

NodeAt(fs, p) == IF p = <<>> THEN DirNode ELSE fs[p]

\* the names of the entries of directory p
Children(fs, p) == {q[Len(q)] : q \in {x \in DOMAIN fs : Len(x) = Len(p) + 1 /\ IsPrefix(p, x)}}

\* the components of a path string: the non-empty pieces between separators,
\* and a final "." when the string ends with a separator (the last component
\* must then resolve to a directory)
RECURSIVE SplitFrom(_, _, _, _)
SplitFrom(s, i, cur, acc) ==
  IF i > Len(s)
    THEN IF cur # <<>> THEN Append(acc, cur)
         ELSE IF acc # <<>> THEN Append(acc, DOT) ELSE acc
    ELSE IF s[i] = SEP
           THEN SplitFrom(s, i + 1, <<>>, IF cur # <<>> THEN Append(acc, cur) ELSE acc)
           ELSE SplitFrom(s, i + 1, Append(cur, s[i]), acc)

Components(s) == SplitFrom(s, 1, <<>>, <<>>)

NotFound == [ok |-> FALSE, path |-> <<>>]

\* path resolution as the kernel does it: from directory cur through comps;
\* follow says whether a symbolic link in the last component is followed
RECURSIVE Walk(_, _, _, _, _)
Walk(fs, cur, comps, follow, fuel) ==
  IF comps = <<>> THEN [ok |-> TRUE, path |-> cur]
  ELSE
    LET c == Head(comps)
        rest == Tail(comps)
        p == Append(cur, c)
    IN  IF c = DOT THEN Walk(fs, cur, rest, follow, fuel)
        ELSE IF c = DOTDOT THEN Walk(fs, Parent(cur), rest, follow, fuel)
        ELSE IF p \notin DOMAIN fs THEN NotFound
        ELSE IF fs[p].kind = "dir" THEN Walk(fs, p, rest, follow, fuel)
        ELSE IF fs[p].kind = "file"
          THEN IF rest = <<>> THEN [ok |-> TRUE, path |-> p] ELSE NotFound
        ELSE \* a symbolic link
          IF rest = <<>> /\ ~follow THEN [ok |-> TRUE, path |-> p]
          ELSE IF fuel = 0 THEN NotFound
          ELSE
            LET target == fs[p].data
                t == Walk(fs, IF StartsWith(target, <<SEP>>) THEN <<>> ELSE cur,
                          Components(target), TRUE, fuel - 1)
            IN  IF ~t.ok THEN NotFound
                ELSE IF rest = <<>> THEN t
                ELSE IF NodeAt(fs, t.path).kind = "dir"
                  THEN Walk(fs, t.path, rest, follow, fuel)
                  ELSE NotFound

\* lstat(2) / stat(2) of an absolute path string
Lookup(fs, s, follow) == Walk(fs, <<>>, Components(s), follow, MaxLinkDepth)

\* os::exists: lstat succeeds
Exists(fs, s) == Lookup(fs, s, FALSE).ok

\* os::stat::isdir: stat (following links) succeeds and names a directory
IsDir(fs, s) ==
  LET r == Lookup(fs, s, TRUE) IN r.ok /\ NodeAt(fs, r.path).kind = "dir"

\* os::stat::islink: lstat succeeds and names a symbolic link
IsLink(fs, s) ==
  LET r == Lookup(fs, s, FALSE) IN r.ok /\ NodeAt(fs, r.path).kind = "link"

\* fs without the entry at canonical path p and everything below it
RemoveTree(fs, p) ==
  [q \in {x \in DOMAIN fs : ~IsPrefix(p, x)} |-> fs[q]]

\* fs without what is below canonical path p
RemoveBelow(fs, p) ==
  [q \in {x \in DOMAIN fs : x = p \/ ~IsPrefix(p, x)} |-> fs[q]]

\* fs with node at canonical path p
Put(fs, p, node) ==
  [q \in DOMAIN fs \cup {p} |-> IF q = p THEN node ELSE fs[q]]

\* os::rm: unlink(2); a directory is not unlinked
OsRm(fs, s) ==
  LET r == Lookup(fs, s, FALSE)
  IN  IF ~r.ok \/ NodeAt(fs, r.path).kind = "dir"
        THEN [ok |-> FALSE, fs |-> fs]
        ELSE [ok |-> TRUE, fs |-> RemoveTree(fs, r.path)]

\* os::rmdir(directory), recursive: a physical walk from the path that unlinks
\* files and links and rmdir(2)s directories after their contents; the final
\* rmdir(2) is of the path string itself, which the kernel refuses when its
\* last named component is "." (trailing separators aside) and no longer
\* finds when it ran through a removed directory
OsRmdir(fs, s) ==
  LET r == Lookup(fs, s, FALSE)
      comps == Components(s)
      named == IF EndsWith(s, <<SEP>>) /\ Len(comps) > 1
                 THEN SubSeq(comps, 1, Len(comps) - 1) ELSE comps
      lastc == IF named = <<>> THEN DOT ELSE named[Len(named)]
  IN  IF ~r.ok THEN [ok |-> FALSE, fs |-> fs]
      ELSE IF NodeAt(fs, r.path).kind # "dir"
        THEN [ok |-> TRUE, fs |-> RemoveTree(fs, r.path)]
      ELSE
        LET emptied == RemoveBelow(fs, r.path)
        IN  IF r.path = <<>> \/ lastc = DOT
              THEN [ok |-> FALSE, fs |-> emptied]
            ELSE IF ~Lookup(emptied, s, FALSE).ok
              THEN [ok |-> TRUE, fs |-> emptied]
            ELSE IF lastc = DOTDOT
              THEN [ok |-> FALSE, fs |-> emptied]
            ELSE [ok |-> TRUE, fs |-> RemoveTree(emptied, r.path)]

\* os::mkdir(path), recursive: every missing component is created; an existing
\* component is left as it is
RECURSIVE MkdirFrom(_, _, _)
MkdirFrom(fs, cur, comps) ==
  IF comps = <<>> THEN [ok |-> TRUE, fs |-> fs]
  ELSE
    LET r == Walk(fs, cur, <<Head(comps)>>, TRUE, MaxLinkDepth)
    IN  IF ~r.ok
          THEN IF Append(cur, Head(comps)) \in DOMAIN fs
                 THEN [ok |-> Tail(comps) = <<>>, fs |-> fs]
                 ELSE MkdirFrom(Put(fs, Append(cur, Head(comps)), DirNode),
                                Append(cur, Head(comps)), Tail(comps))
        ELSE IF NodeAt(fs, r.path).kind = "dir"
          THEN MkdirFrom(fs, r.path, Tail(comps))
          ELSE [ok |-> Tail(comps) = <<>>, fs |-> fs]

OsMkdir(fs, s) == MkdirFrom(fs, <<>>, Components(s))

(***************************************************************************)
(* The walker of a layer: fts_open(layer, FTS_NOCHDIR | FTS_PHYSICAL) and  *)
(* fts_read.  Directories are visited before their contents; the order of  *)
(* the entries of one directory is not fixed (no comparison function).     *)
(***************************************************************************)
\* the preorder walks of what is below canonical directory p: sequences of
\* canonical paths, one for every order of every directory's entries
RECURSIVE WalksOf(_, _, _)
WalksOf(fs, p, names) ==
  IF names = {} THEN {<<>>}
  ELSE UNION {
         LET q == Append(p, n)
             below == IF fs[q].kind = "dir"
                        THEN WalksOf(fs, q, Children(fs, q)) ELSE {<<>>}
         IN  {<<q>> \o w \o rest : w \in below, rest \in WalksOf(fs, p, names \ {n})}
         : n \in names}

\* the walks of the layer directory named by path string layer
Walks(fs, layer) ==
  LET r == Lookup(fs, layer, FALSE)
  IN  WalksOf(fs, r.path, Children(fs, r.path))

\* the path string of components comps below a directory string
RECURSIVE PathStr(_, _)
PathStr(dir, comps) ==
  IF comps = <<>> THEN dir
  ELSE PathStr(dir \o <<SEP>> \o Head(comps), Tail(comps))

\* node->fts_path of the entry at canonical path q of the layer at string layer
FtsPath(fs, layer, q) ==
  PathStr(layer, SubSeq(q, Len(Lookup(fs, layer, FALSE).path) + 1, Len(q)))

(***************************************************************************)
(* CopyBackendProcess::_provision, first half: the scan of one layer, with *)
(* the removals from rootfs done while walking.                            *)
(***************************************************************************)
\* docker::spec::WHITEOUT_PREFIX
WHITEOUT_PREFIX == <<".", "w", "h", ".">>

\* docker::spec::WHITEOUT_OPAQUE_PREFIX
WHITEOUT_OPAQUE_PREFIX ==
  <<".", "w", "h", ".", ".", "w", "h", ".", ".", "o", "p", "q">>

\* Option<string>
None == [some |-> FALSE, val |-> <<>>]
Some(v) == [some |-> TRUE, val |-> v]

\* a test that takes every regular file for a whiteout
IsWhiteoutEveryFile(kind, ftsName) == kind = "file"

\* a test that looks at the name alone, whatever the kind of the entry
IsWhiteoutAnyKind(kind, ftsName) == StartsWith(ftsName, WHITEOUT_PREFIX)

\* a scan that takes only the opaque marker for a whiteout file
IsWhiteoutOpaqueOnly(kind, ftsName) ==
  kind = "file" /\ ftsName = WHITEOUT_OPAQUE_PREFIX

\* an entry the walker hands out is a whiteout file: FTS_F and the prefix
IsWhiteout(kind, ftsName) ==
  kind = "file" /\ StartsWith(ftsName, WHITEOUT_PREFIX)

\* a target computed below the path /r whatever rootfs is
WhiteoutTargetFixedRoot(rootfs, layerPath, ftsName) ==
  LET whiteout == PathValue(layerPath)
  IN  IF ftsName = WHITEOUT_OPAQUE_PREFIX
        THEN Join(<<SEP, "r">>, Dirname(whiteout))
        ELSE Join3(<<SEP, "r">>, Dirname(whiteout),
                   Substr(Basename(whiteout), Len(WHITEOUT_PREFIX)))

\* the path in rootfs a whiteout file removes: the directory of an opaque
\* whiteout, else the sibling named by the rest of the file name
WhiteoutTarget(rootfs, layerPath, ftsName) ==
  LET whiteout == PathValue(layerPath)
  IN  IF ftsName = WHITEOUT_OPAQUE_PREFIX
        THEN Join(rootfs, Dirname(whiteout))
        ELSE Join3(rootfs, Dirname(whiteout),
                   Substr(Basename(whiteout), Len(WHITEOUT_PREFIX)))

\* the overwrite checks without the branch for symbolic links
OverwritePathNoLink(fs, rootfsPath, ftsIsDir, removePath) ==
  IF Exists(fs, rootfsPath) /\ IsDir(fs, rootfsPath) # ftsIsDir
    THEN Some(rootfsPath)
    ELSE removePath

\* the overwrite checks without the branch for a change of kind
OverwritePathNoKind(fs, rootfsPath, ftsIsDir, removePath) ==
  IF Exists(fs, rootfsPath) /\ IsLink(fs, rootfsPath)
    THEN Some(rootfsPath)
    ELSE removePath

\* removePath after the overwrite checks: an existing rootfsPath of the other
\* kind, or a symbolic link, replaces what the whiteout branch chose
OverwritePath(fs, rootfsPath, ftsIsDir, removePath) ==
  IF Exists(fs, rootfsPath)
    THEN IF IsDir(fs, rootfsPath) # ftsIsDir THEN Some(rootfsPath)
         ELSE IF IsLink(fs, rootfsPath) THEN Some(rootfsPath)
         ELSE removePath
    ELSE removePath

\* removePath of one entry of the layer
RemovePath(fs, rootfs, layerPath, ftsName, kind) ==
  OverwritePath(fs, Join(rootfs, layerPath), kind = "dir",
                IF IsWhiteout(kind, ftsName)
                  THEN Some(WhiteoutTarget(rootfs, layerPath, ftsName))
                  ELSE None)

\* a removal that does not look whether removePath exists
RemoveExistingUnchecked(fs, removePath) ==
  IF removePath.some
    THEN IF IsDir(fs, removePath.val)
           THEN OsRmdir(fs, removePath.val)
           ELSE OsRm(fs, removePath.val)
    ELSE [ok |-> TRUE, fs |-> fs]

\* the removal of removePath if it exists: os::rmdir of a directory, os::rm of
\* anything else
RemoveExisting(fs, removePath) ==
  IF removePath.some /\ Exists(fs, removePath.val)
    THEN IF IsDir(fs, removePath.val)
           THEN OsRmdir(fs, removePath.val)
           ELSE OsRm(fs, removePath.val)
    ELSE [ok |-> TRUE, fs |-> fs]

NoFault == [kind |-> "none", at |-> 0]

Event(ev, k, path) == [ev |-> ev, k |-> k, path |-> path]

\* the body of the fts_read loop for the i-th entry of the walk, the entry at
\* canonical path q of the layer; fs0 is the file system the walk started on
ScanEntry(st, rootfs, layer, fs0, q, i, k, fault) ==
  IF ~st.ok THEN st
  ELSE IF fault.kind = "walk" /\ fault.at = i
    THEN [st EXCEPT !.ok = FALSE, !.error = "Failed to read"]
  ELSE
    LET ftsPath == FtsPath(fs0, layer, q)
        ftsName == q[Len(q)]
        kind == fs0[q].kind
        layerPath == Substr(ftsPath, Len(layer) + 1)
        rootfsPath == Join(rootfs, layerPath)
        whiteouts == IF IsWhiteout(kind, ftsName)
                       THEN Append(st.whiteouts, rootfsPath) ELSE st.whiteouts
        removePath == RemovePath(st.fs, rootfs, layerPath, ftsName, kind)
        removing == removePath.some /\ Exists(st.fs, removePath.val)
        rm == RemoveExisting(st.fs, removePath)
    IN  IF removing /\ fault.kind = "remove" /\ fault.at = i
          THEN [st EXCEPT !.ok = FALSE, !.whiteouts = whiteouts,
                          !.error = "Failed to remove"]
        ELSE IF ~rm.ok
          THEN [ok |-> FALSE, fs |-> rm.fs, whiteouts |-> whiteouts,
                log |-> Append(st.log, Event("remove", k, removePath.val)),
                error |-> "Failed to remove"]
        ELSE [ok |-> TRUE, fs |-> rm.fs, whiteouts |-> whiteouts,
              log |-> IF removing
                        THEN Append(st.log, Event("remove", k, removePath.val))
                        ELSE st.log,
              error |-> ""]

\* the fts_read loop over the walk order
RECURSIVE ScanFrom(_, _, _, _, _, _, _, _)
ScanFrom(st, rootfs, layer, fs0, order, i, k, fault) ==
  IF i > Len(order) THEN st
  ELSE ScanFrom(ScanEntry(st, rootfs, layer, fs0, order[i], i, k, fault),
                rootfs, layer, fs0, order, i + 1, k, fault)

\* the scan of layer number k of the stack
Scan(fs, rootfs, layer, order, k, fault) ==
  ScanFrom([ok |-> TRUE, fs |-> fs, whiteouts |-> <<>>, log |-> <<>>, error |-> ""],
           rootfs, layer, fs, order, 1, k, fault)

(***************************************************************************)
(* CopyBackendProcess::_provision and ::traverse of the Windows build: the *)
(* walk of the layer queues the paths to remove, and they are removed      *)
(* after the walk.  The walk takes the kind of an entry from its status,   *)
(* which follows symbolic links; the order of a directory's entries is     *)
(* not fixed.  Entries are named by their components below the layer.      *)
(***************************************************************************)
\* filesystem::is_regular_file(file)
IsRegularFile(fs, s) ==
  LET r == Lookup(fs, s, TRUE) IN r.ok /\ NodeAt(fs, r.path).kind = "file"

\* the orders in which traverse is called for what is below the entry rel of
\* the layer, whose directory entries are names
RECURSIVE TraversalsOf(_, _, _, _)
TraversalsOf(fs, layer, rel, names) ==
  IF names = {} THEN {<<>>}
  ELSE UNION {
         LET r == Append(rel, n)
             file == PathStr(layer, r)
             below == IF IsDir(fs, file)
                        THEN TraversalsOf(fs, layer, r,
                                          Children(fs, Lookup(fs, file, TRUE).path))
                        ELSE {<<>>}
         IN  {<<r>> \o w \o rest :
                w \in below, rest \in TraversalsOf(fs, layer, rel, names \ {n})}
         : n \in names}

\* the orders of the calls of traverse for the layer directory
Traversals(fs, layer) ==
  TraversalsOf(fs, layer, <<>>, Children(fs, Lookup(fs, layer, TRUE).path))

\* the body of traverse for the entry rel of the layer, before it descends:
\* st holds the two vectors
Traverse(st, rootfs, layer, fs, rel) ==
  LET ftsPath == PathStr(layer, rel)
      filename == rel[Len(rel)]
      layerPath == Substr(ftsPath, Len(layer) + 1)
      rootfsPath == Join(rootfs, layerPath)
      isWhiteout == IsRegularFile(fs, ftsPath) /\ StartsWith(filename, WHITEOUT_PREFIX)
      removePath == OverwritePath(fs, rootfsPath, IsDir(fs, ftsPath),
                                  IF isWhiteout
                                    THEN Some(WhiteoutTarget(rootfs, layerPath, filename))
                                    ELSE None)
  IN  [whiteouts |-> IF isWhiteout THEN Append(st.whiteouts, rootfsPath)
                     ELSE st.whiteouts,
       removePaths |-> IF removePath.some THEN Append(st.removePaths, removePath.val)
                       ELSE st.removePaths]

\* the calls of traverse in the order w
RECURSIVE TraverseFrom(_, _, _, _, _, _)
TraverseFrom(st, rootfs, layer, fs, w, i) ==
  IF i > Len(w) THEN st
  ELSE TraverseFrom(Traverse(st, rootfs, layer, fs, w[i]), rootfs, layer, fs, w, i + 1)

\* the loop over removePaths after the walk: each path that still exists is
\* removed, and the first failure ends the loop
RECURSIVE RemoveQueued(_, _, _)
RemoveQueued(st, removePaths, i) ==
  IF i > Len(removePaths) \/ ~st.ok THEN st
  ELSE LET rm == RemoveExisting(st.fs, Some(removePaths[i]))
       IN  RemoveQueued([ok |-> rm.ok, fs |-> rm.fs], removePaths, i + 1)

\* the Windows scan of a layer in the order w: the walk, then the removals
QueuedScan(fs, rootfs, layer, w) ==
  LET q == TraverseFrom([whiteouts |-> <<>>, removePaths |-> <<>>],
                        rootfs, layer, fs, w, 1)
      rm == RemoveQueued([ok |-> TRUE, fs |-> fs], q.removePaths, 1)
  IN  [ok |-> rm.ok, fs |-> rm.fs, whiteouts |-> q.whiteouts,
       removePaths |-> q.removePaths]

(***************************************************************************)
(* The child processes of the Copy backend: `cp -aT layer rootfs` and      *)
(* `rm -rf rootfs`.                                                        *)
(***************************************************************************)
\* fs with node created at path string dst, whose directory must resolve
CreateAt(fs, dst, node) ==
  LET comps == Components(dst)
      dir == Walk(fs, <<>>, SubSeq(comps, 1, Len(comps) - 1), TRUE, MaxLinkDepth)
  IN  IF comps = <<>> \/ ~dir.ok \/ NodeAt(fs, dir.path).kind # "dir"
        THEN [ok |-> FALSE, fs |-> fs]
        ELSE [ok |-> TRUE, fs |-> Put(fs, Append(dir.path, comps[Len(comps)]), node)]

\* a copy that leaves what is at dst already
CpNodeNoClobber(fs, dst, node) ==
  IF Lookup(fs, dst, FALSE).ok THEN [ok |-> TRUE, fs |-> fs]
  ELSE CreateAt(fs, dst, node)

\* cp -a of one source node onto path string dst: a directory is created or
\* merged into an existing directory; a regular file is created or written
\* into what dst names (through a symbolic link at dst); a symbolic link is
\* created, replacing a file or link at dst.  Anything else is an error.
CpNode(fs, dst, node) ==
  LET l == Lookup(fs, dst, FALSE)
      t == Lookup(fs, dst, TRUE)
  IN  IF ~l.ok THEN CreateAt(fs, dst, node)
      ELSE IF node.kind = "dir"
        THEN [ok |-> NodeAt(fs, l.path).kind = "dir", fs |-> fs]
      ELSE IF node.kind = "file"
        THEN IF t.ok /\ NodeAt(fs, t.path).kind = "file"
               THEN [ok |-> TRUE, fs |-> Put(fs, t.path, node)]
               ELSE [ok |-> FALSE, fs |-> fs]
      ELSE IF NodeAt(fs, l.path).kind = "dir"
        THEN [ok |-> FALSE, fs |-> fs]
        ELSE [ok |-> TRUE, fs |-> Put(fs, l.path, node)]

\* cp over the first n entries of its walk of the layer; an entry below a
\* directory cp could not create is skipped; cp goes on after an error and
\* reports it in its exit status
RECURSIVE CpFrom(_, _, _, _, _, _, _)
CpFrom(st, rootfs, layer, fs0, order, i, n) ==
  IF i > n THEN st
  ELSE
    LET q == order[i]
        skip == \E f \in st.failed : IsPrefix(f, q)
        dst == Join(rootfs, Substr(FtsPath(fs0, layer, q), Len(layer) + 1))
        r == CpNode(st.fs, dst, fs0[q])
    IN  CpFrom(IF skip THEN st
               ELSE [fs |-> r.fs,
                     failed |-> IF r.ok THEN st.failed ELSE st.failed \cup {q}],
               rootfs, layer, fs0, order, i + 1, n)

\* a cp whose destination is the path /r whatever rootfs is
CpFixedRoot(fs, rootfs, layer, order, n) ==
  LET root == CpNode(fs, <<SEP, "r">>, DirNode)
  IN  IF ~root.ok THEN [fs |-> fs, failed |-> {<<>>}]
      ELSE CpFrom([fs |-> root.fs, failed |-> {}], <<SEP, "r">>, layer, fs, order, 1, n)

\* cp -aT layer rootfs, stopped after n entries: [fs, failed]
Cp(fs, rootfs, layer, order, n) ==
  LET root == CpNode(fs, rootfs, DirNode)
  IN  IF ~root.ok THEN [fs |-> fs, failed |-> {<<>>}]
      ELSE CpFrom([fs |-> root.fs, failed |-> {}], rootfs, layer, fs, order, 1, n)

\* a removal that empties the directory and leaves it
RmRfContents(fs, s) ==
  LET r == Lookup(fs, s, FALSE)
  IN  IF ~r.ok \/ r.path = <<>> THEN fs ELSE RemoveBelow(fs, r.path)

\* rm -rf path: nothing is followed; a missing path is not an error (-f)
RmRf(fs, s) ==
  LET r == Lookup(fs, s, FALSE)
  IN  IF ~r.ok \/ r.path = <<>> THEN fs ELSE RemoveTree(fs, r.path)

(***************************************************************************)
(* The inputs: two layer directories /a and /b, a directory /e outside of  *)
(* every layer and of rootfs that symbolic links point into, the rootfs    *)
(* path /r and the backend directory /w.                                   *)
(***************************************************************************)
NameD == <<"d">>
NameN == <<"n">>
NameK == <<"k">>
NameX == <<"x">>
\* .wh.n and .wh..wh..opq
NameWhN == WHITEOUT_PREFIX \o NameN
NameOpq == WHITEOUT_OPAQUE_PREFIX
NameWh == WHITEOUT_PREFIX
NameWhWhN == WHITEOUT_PREFIX \o NameWhN
NameWhUp == WHITEOUT_PREFIX \o DOTDOT

LayerA == <<"/", "a">>
LayerB == <<"/", "b">>
Rootfs == <<"/", "r">>
OtherRootfs == <<"/", "e", "/", "r">>
BackendDir == <<"/", "w">>
ExtFile == <<"/", "e", "/", "f">>
ExtDir == <<"/", "e", "/", "d">>
ExtMissing == <<"/", "e", "/", "x">>

\* /r/d/k: a link target inside rootfs
InsideFile == <<"/", "r", "/", "d", "/", "k">>

LinkTargets == {ExtFile, ExtDir, ExtMissing}

EmptyTree == [q \in {} |-> DirNode]

\* the contents a layer directory may have; c is the content of its files
LayerTrees(c) ==
  LET D == <<NameD>> :> DirNode
  IN  { EmptyTree,
        D,
        <<NameD>> :> FileNode(c),
        <<NameN>> :> FileNode(c),
        <<NameWhN>> :> FileNode(c),
        D @@ <<NameD, NameN>> :> FileNode(c),
        D @@ <<NameD, NameN>> :> FileNode(c) @@ <<NameD, NameK>> :> FileNode(c),
        D @@ <<NameD, NameN>> :> DirNode @@ <<NameD, NameN, NameX>> :> FileNode(c),
        D @@ <<NameD, NameWhN>> :> FileNode(c),
        D @@ <<NameD, NameWhN>> :> FileNode(c) @@ <<NameD, NameK>> :> FileNode(c),
        D @@ <<NameD, NameOpq>> :> FileNode(c),
        D @@ <<NameD, NameOpq>> :> FileNode(c) @@ <<NameD, NameK>> :> FileNode(c),
        D @@ <<NameD, NameWhN>> :> DirNode @@ <<NameD, NameN>> :> FileNode(c),
        D @@ <<NameD, NameOpq>> :> DirNode @@ <<NameD, NameN>> :> FileNode(c) }
      \cup {<<NameD>> :> LinkNode(t) : t \in LinkTargets}
      \cup {D @@ <<NameD, NameN>> :> LinkNode(t) : t \in LinkTargets}
      \cup {D @@ <<NameD, NameWhN>> :> LinkNode(ExtFile),
            D @@ <<NameD, NameN>> :> LinkNode(InsideFile) @@ <<NameD, NameK>> :> FileNode(c)}

\* tree placed below canonical directory base
Graft(base, tree) == [q \in {base \o rel : rel \in DOMAIN tree} |-> tree[SubSeq(q, Len(base) + 1, Len(q))]]

\* what exists besides the layers' contents and rootfs
BaseFs ==
  <<<<"a">>>> :> DirNode @@ <<<<"b">>>> :> DirNode @@ <<<<"w">>>> :> DirNode @@
  <<<<"e">>>> :> DirNode @@ <<<<"e">>, <<"f">>>> :> FileNode(<<"E">>) @@
  <<<<"e">>, <<"d">>>> :> DirNode @@ <<<<"e">>, <<"d">>, NameN>> :> FileNode(<<"E">>)

\* the file systems a run starts on: rootfs does not exist
FreshFs ==
  {BaseFs @@ Graft(<<<<"a">>>>, ta) @@ Graft(<<<<"b">>>>, tb) :
     ta \in LayerTrees(<<"A">>), tb \in LayerTrees(<<"B">>)}

\* rootfs exists already: a directory with an entry, a file, a symbolic link
StaleFs ==
  LET f == BaseFs @@ Graft(<<<<"a">>>>, <<NameD>> :> FileNode(<<"A">>))
  IN  { f @@ <<<<"r">>>> :> DirNode @@ <<<<"r">>, NameK>> :> FileNode(<<"R">>),
        f @@ <<<<"r">>>> :> FileNode(<<"R">>),
        f @@ <<<<"r">>>> :> LinkNode(ExtDir),
        f @@ <<<<"r">>>> :> LinkNode(ExtMissing) }

\* the layer stacks a provision is called with: /a alone or below a stack of
\* /a and /b (a stack with /b at the base is the stack of a run that starts
\* with the contents of /a and /b exchanged)
RECURSIVE StacksOfLen(_)
StacksOfLen(n) ==
  IF n = 0 THEN {<<>>}
  ELSE IF n = 1 THEN {<<LayerA>>}
  ELSE {Append(st, l) : st \in StacksOfLen(n - 1), l \in {LayerA, LayerB}}

Stacks(n) == UNION {StacksOfLen(m) : m \in 0..n}

(***************************************************************************)
(* The state.                                                              *)
(***************************************************************************)
VARIABLES
  backend,    \* which backend the run is of: "copy" or "wclayer"
  fs,         \* the file system
  pc,         \* where the backend process is: "idle", or what it awaits
  rootfs,     \* the rootfs argument of the operation in progress or last done
  layers,     \* the layers argument of the provision in progress or last done
  idx,        \* the number of the layer of the stack being applied
  whiteouts,  \* the whiteouts vector of the layer being applied
  result,     \* the future of the operation in progress or last done
  trace,      \* the steps taken by the operation in progress or last done
  cmds,       \* the wclayer commands started by the operation, in order
  done,       \* the operations completed before this one and how: <<op, status>>
  ops,        \* the number of operations dispatched so far
  budget,     \* the number of operations the run dispatches
  depth,      \* the length of the longest layer stack the run provisions
  targets,    \* the rootfs paths the run's callers provision and destroy
  other,      \* the operation of a second backend instance on the same file
              \* system, while the handlers act for the first
  arg,        \* the arguments of the call of a library function under study
  ret,        \* what that call has computed and returned so far
  pre         \* the file system when the scan of the layer being applied began

vars == <<backend, fs, pc, rootfs, layers, idx, whiteouts, result, trace, cmds, done,
          ops, budget, depth, targets, other, arg, ret, pre>>

\* the operations completed so far
Completed ==
  IF result.op = "none" THEN done ELSE Append(done, <<result.op, result.status>>)

\* an actor that takes the next dispatched operation whatever it is doing
ActorAlwaysFree == TRUE

\* the actor runtime: a backend instance serializes its operations, so that it
\* takes the next dispatched operation only when the one before it has
\* completed and nothing of it is awaited any more
ActorFree == pc = "idle"

\* a future: pending, ready with a value (true for `return true` and for
\* Nothing()), or failed with a message
Pending(op) == [op |-> op, status |-> "pending", value |-> FALSE, error |-> ""]
Ready(op) == [op |-> op, status |-> "ok", value |-> TRUE, error |-> ""]
\* a failure that is never set on the returned future
FailureNeverSet(op, message) == [op |-> op, status |-> "pending", value |-> FALSE, error |-> ""]

Failure(op, message) == [op |-> op, status |-> "failed", value |-> FALSE, error |-> message]
NoResult == [op |-> "none", status |-> "none", value |-> FALSE, error |-> ""]

\* no library function is under study
NoCall == [fn |-> "none"]
NoReturn == [at |-> "none"]

\* a backend instance that has not been called
NoOperation ==
  [pc |-> "idle", rootfs |-> Rootfs, layers |-> <<>>, idx |-> 0,
   whiteouts |-> <<>>, result |-> NoResult, trace |-> <<>>, done |-> <<>>,
   pre |-> EmptyTree]

(***************************************************************************)
(* The Copy backend.                                                       *)
(***************************************************************************)
\* provision without the check of the layer list
ProvisionCheckNoEmpty(f, ls, r) ==
  IF Exists(f, r) THEN "Rootfs is already provisioned" ELSE ""

\* provision that takes only a directory for a provisioned rootfs
ProvisionCheckIsDir(f, ls, r) ==
  IF Len(ls) = 0 THEN "No filesystem layers provided"
  ELSE IF IsDir(f, r) THEN "Rootfs is already provisioned"
  ELSE ""

\* the checks of CopyBackendProcess::provision before it touches anything:
\* the error it returns, "" when there is none
ProvisionCheck(f, ls, r) ==
  IF Len(ls) = 0 THEN "No filesystem layers provided"
  ELSE IF Exists(f, r) THEN "Rootfs is already provisioned"
  ELSE ""

\* CopyBackendProcess::provision(layers, rootfs): the checks, the mkdir of
\* rootfs and the chain of one _provision per layer, each run after the one
\* before it succeeded; mkdirFails is the file system refusing the mkdir
CopyProvision(ls, r, mkdirFails) ==
  /\ backend = "copy"
  /\ ActorFree
  /\ ops < budget
  /\ ops' = ops + 1
  /\ pre' = EmptyTree
  /\ UNCHANGED <<budget, depth, targets, other, arg, ret>>
  /\ done' = Completed
  /\ rootfs' = r
  /\ layers' = ls
  /\ whiteouts' = <<>>
  /\ UNCHANGED <<backend, cmds>>
  /\ LET check == ProvisionCheck(fs, ls, r)
         mkdir == OsMkdir(fs, r)
     IN  IF check # ""
           THEN /\ result' = Failure("provision", check)
                /\ trace' = <<>>
                /\ idx' = 0
                /\ UNCHANGED <<fs, pc>>
         ELSE IF mkdirFails \/ ~mkdir.ok
           THEN /\ result' = Failure("provision", "Failed to create rootfs directory")
                /\ trace' = <<>>
                /\ idx' = 0
                /\ UNCHANGED <<fs, pc>>
         ELSE IF Len(ls) = 0
           THEN \* no _provision is chained: collect() of the one ready future
                /\ fs' = mkdir.fs
                /\ trace' = <<Event("mkdir", 0, r)>>
                /\ result' = Ready("provision")
                /\ idx' = 0
                /\ UNCHANGED pc
         ELSE /\ fs' = mkdir.fs
              /\ trace' = <<Event("mkdir", 0, r)>>
              /\ result' = Pending("provision")
              /\ pc' = "layer"
              /\ idx' = 1

\* CopyBackendProcess::_provision(layer, rootfs) up to the start of cp: the
\* walk of the layer in some order with the removals it makes, then the cp
\* subprocess; fault is an entry the walker cannot read or a removal the file
\* system refuses, spawnFails is subprocess() returning an error
CopyScan(order, fault, spawnFails) ==
  /\ backend = "copy"
  /\ pc = "layer"
  /\ LET layer == layers[idx]
         opened == IsDir(fs, layer)
         sc == Scan(fs, rootfs, layer, order, idx, fault)
         log == trace \o <<Event("scan", idx, layer)>> \o sc.log
     IN  IF ~opened
           THEN /\ result' = Failure("provision", "Failed to open")
                /\ pc' = "idle"
                /\ trace' = trace
                /\ UNCHANGED <<fs, whiteouts>>
         ELSE IF ~sc.ok
           THEN /\ result' = Failure("provision", sc.error)
                /\ pc' = "idle"
                /\ fs' = sc.fs
                /\ trace' = log
                /\ UNCHANGED whiteouts
         ELSE IF spawnFails
           THEN /\ result' = Failure("provision", "Failed to create 'cp' subprocess")
                /\ pc' = "idle"
                /\ fs' = sc.fs
                /\ trace' = log
                /\ UNCHANGED whiteouts
         ELSE /\ fs' = sc.fs
              /\ whiteouts' = sc.whiteouts
              /\ trace' = Append(log, Event("cp", idx, layer))
              /\ pc' = "cp"
              /\ UNCHANGED result
  /\ pre' = fs
  /\ UNCHANGED <<backend, rootfs, layers, idx, cmds, done, ops, budget, depth, targets, other, arg, ret>>

\* a cleanup that skips a whiteout file it cannot remove and goes on
RECURSIVE RemoveWhiteoutsSkipping(_, _, _, _)
RemoveWhiteoutsSkipping(st, ws, i, failAt) ==
  IF i > Len(ws) THEN st
  ELSE LET rm == OsRm(st.fs, ws[i])
       IN  RemoveWhiteoutsSkipping(
             IF i = failAt \/ ~rm.ok THEN st
             ELSE [ok |-> TRUE, fs |-> rm.fs,
                   log |-> Append(st.log, Event("unlink", idx, ws[i]))],
             ws, i + 1, failAt)

\* the removal of the whiteout files from rootfs after the copy; failAt is the
\* number of a removal the file system refuses (0: none)
RECURSIVE RemoveWhiteouts(_, _, _, _)
RemoveWhiteouts(st, ws, i, failAt) ==
  IF i > Len(ws) \/ ~st.ok THEN st
  ELSE LET rm == OsRm(st.fs, ws[i])
       IN  RemoveWhiteouts(
             IF i = failAt \/ ~rm.ok
               THEN [st EXCEPT !.ok = FALSE]
               ELSE [ok |-> TRUE, fs |-> rm.fs,
                     log |-> Append(st.log, Event("unlink", idx, ws[i]))],
             ws, i + 1, failAt)

\* the continuation of cp.status() when cp exited with status 0: the copy was
\* made, the whiteout files are removed, and the next layer's _provision is
\* dispatched if there is one
CopyCpExitZero(order, failAt) ==
  /\ backend = "copy"
  /\ pc = "cp"
  /\ LET cp == Cp(fs, rootfs, layers[idx], order, Len(order))
         rw == RemoveWhiteouts([ok |-> TRUE, fs |-> cp.fs,
                                log |-> Append(trace, Event("copied", idx, layers[idx]))],
                               whiteouts, 1, failAt)
     IN  /\ cp.failed = {}
         /\ fs' = rw.fs
         /\ trace' = rw.log
         /\ IF ~rw.ok
              THEN /\ result' = Failure("provision", "Failed to remove whiteout file")
                   /\ pc' = "idle"
                   /\ UNCHANGED idx
            ELSE IF idx < Len(layers)
              THEN /\ pc' = "layer"
                   /\ idx' = idx + 1
                   /\ UNCHANGED result
            ELSE /\ pc' = "idle"
                 /\ result' = Ready("provision")
                 /\ UNCHANGED idx
  /\ whiteouts' = <<>>
  /\ UNCHANGED <<backend, rootfs, layers, cmds, done, ops, budget, depth, targets, other, arg, ret, pre>>

\* what cp wrote to its standard error, read through the pipe by io::read
CpStderr == "<stderr of cp>"

\* the message of a failed copy: "Failed to copy layer: " + err
CopyError(err) == "Failed to copy layer: " \o err

\* a continuation that removes the whiteout files whatever the status of cp
CopyCpExitFailedCleans(order, n, reaped) ==
  /\ backend = "copy"
  /\ pc = "cp"
  /\ LET rw == RemoveWhiteoutsSkipping([ok |-> TRUE, log |-> trace,
                                       fs |-> Cp(fs, rootfs, layers[idx], order, n).fs],
                                      whiteouts, 1, 0)
     IN  fs' = rw.fs /\ trace' = rw.log
  /\ result' = Failure("provision",
                       IF reaped THEN CopyError(CpStderr)
                       ELSE "Failed to reap subprocess to copy image")
  /\ pc' = "idle"
  /\ whiteouts' = <<>>
  /\ UNCHANGED <<backend, rootfs, layers, idx, cmds, done, ops, budget, depth, targets, other, arg, ret, pre>>

\* a continuation that takes a failed cp for a finished one
CopyCpExitFailedGoesOn(order, n, reaped) ==
  /\ backend = "copy"
  /\ pc = "cp"
  /\ fs' = Cp(fs, rootfs, layers[idx], order, n).fs
  /\ IF idx < Len(layers)
       THEN pc' = "layer" /\ idx' = idx + 1 /\ UNCHANGED result
       ELSE pc' = "idle" /\ result' = Ready("provision") /\ UNCHANGED idx
  /\ whiteouts' = <<>>
  /\ UNCHANGED <<backend, rootfs, layers, trace, cmds, done, ops, budget, depth, targets, other, arg, ret, pre>>

\* a continuation that rolls the provision back when cp failed: it removes
\* rootfs before it reports the failure
CopyCpExitFailedRollsBack(order, n, reaped) ==
  /\ backend = "copy"
  /\ pc = "cp"
  /\ fs' = RmRf(Cp(fs, rootfs, layers[idx], order, n).fs, rootfs)
  /\ result' = Failure("provision",
                       IF reaped THEN CopyError(CpStderr)
                       ELSE "Failed to reap subprocess to copy image")
  /\ pc' = "idle"
  /\ whiteouts' = <<>>
  /\ UNCHANGED <<backend, rootfs, layers, idx, trace, cmds, done, ops, budget, depth, targets, other, arg, ret, pre>>

\* the continuation of cp.status() when cp exited with another status, or
\* was not reaped: cp got through n entries of its walk
CopyCpExitFailed(order, n, reaped) ==
  /\ backend = "copy"
  /\ pc = "cp"
  /\ fs' = Cp(fs, rootfs, layers[idx], order, n).fs
  /\ result' = Failure("provision",
                       IF reaped THEN CopyError(CpStderr)
                       ELSE "Failed to reap subprocess to copy image")
  /\ pc' = "idle"
  /\ whiteouts' = <<>>
  /\ UNCHANGED <<backend, rootfs, layers, idx, trace, cmds, done, ops, budget, depth, targets, other, arg, ret, pre>>

\* _provision of one layer from scan to cleanup when nothing fails from
\* outside: the scan in walk order o, cp of the layer, and the removal of the
\* whiteout files; [ok, fs]
ProvisionLayer(f, r, layer, o) ==
  LET sc == Scan(f, r, layer, o, 0, NoFault)
      cp == Cp(sc.fs, r, layer, o, Len(o))
      rw == RemoveWhiteouts([ok |-> TRUE, fs |-> cp.fs, log |-> <<>>],
                            sc.whiteouts, 1, 0)
  IN  IF ~sc.ok THEN [ok |-> FALSE, fs |-> sc.fs]
      ELSE IF cp.failed # {} THEN [ok |-> FALSE, fs |-> cp.fs]
      ELSE [ok |-> rw.ok, fs |-> rw.fs]

\* the chain of _provision over layers j.. of ls, layer i walked in order os[i]
RECURSIVE ProvisionFrom(_, _, _, _, _)
ProvisionFrom(st, r, ls, os, j) ==
  IF j > Len(ls) \/ ~st.ok THEN st
  ELSE ProvisionFrom(ProvisionLayer(st.fs, r, ls[j], os[j]), r, ls, os, j + 1)

\* provision(ls, r) on file system f when nothing fails from outside
Provisioned(f, ls, r, os) ==
  LET mkdir == OsMkdir(f, r)
  IN  IF ProvisionCheck(f, ls, r) # "" \/ ~mkdir.ok THEN [ok |-> FALSE, fs |-> f]
      ELSE ProvisionFrom([ok |-> TRUE, fs |-> mkdir.fs], r, ls, os, 1)

\* the walk orders of the layers of ls, one for every layer
WalkChoices(f, ls) ==
  {os \in [DOMAIN ls -> UNION {Walks(f, ls[j]) : j \in DOMAIN ls}] :
     \A j \in DOMAIN ls : os[j] \in Walks(f, ls[j])}


\* CopyBackendProcess::destroy(rootfs): start `rm -rf rootfs`
CopyDestroy(r, spawnFails) ==
  /\ backend = "copy"
  /\ ActorFree
  /\ ops < budget
  /\ ops' = ops + 1
  /\ pre' = EmptyTree
  /\ UNCHANGED <<budget, depth, targets, other, arg, ret>>
  /\ done' = Completed
  /\ rootfs' = r
  /\ layers' = <<>>
  /\ idx' = 0
  /\ whiteouts' = <<>>
  /\ IF spawnFails
       THEN /\ result' = Failure("destroy", "Failed to create 'rm' subprocess")
            /\ trace' = <<>>
            /\ UNCHANGED pc
       ELSE /\ result' = Pending("destroy")
            /\ trace' = <<Event("rm", 0, r)>>
            /\ pc' = "rm"
  /\ UNCHANGED <<backend, fs, cmds>>

\* the result of destroy for the status of rm: None when it was not reaped
DestroyResult(status) ==
  IF status = "none"
    THEN Failure("destroy", "Failed to reap subprocess to destroy rootfs")
  ELSE IF status # "0"
    THEN Failure("destroy", "Failed to destroy rootfs, exit status")
  ELSE Ready("destroy")

\* the continuation of rm's status(): rm removed rootfs and exited with 0, or
\* failed (status "1") or was not reaped, leaving rootfs
CopyRmExit(status) ==
  /\ backend = "copy"
  /\ pc = "rm"
  /\ fs' = IF status = "0" THEN RmRf(fs, rootfs) ELSE fs
  /\ result' = DestroyResult(status)
  /\ pc' = "idle"
  /\ UNCHANGED <<backend, rootfs, layers, idx, whiteouts, trace, cmds, done, ops, budget, depth, targets, other, arg, ret, pre>>

Faults(order) ==
  {NoFault} \cup {[kind |-> kd, at |-> i] : kd \in {"walk", "remove"}, i \in 1..Len(order)}

CopyNext ==
  \/ \E ls \in Stacks(depth), r \in targets, m \in BOOLEAN : CopyProvision(ls, r, m)
  \/ /\ pc = "layer"
     /\ \E order \in Walks(fs, layers[idx]), sp \in BOOLEAN :
          \E fault \in Faults(order) : CopyScan(order, fault, sp)
  \/ /\ pc = "cp"
     /\ \E order \in Walks(fs, layers[idx]), failAt \in 0..Len(whiteouts) :
          CopyCpExitZero(order, failAt)
  \/ /\ pc = "cp"
     /\ \E order \in Walks(fs, layers[idx]), reaped \in BOOLEAN :
          \E n \in 0..Len(order) : CopyCpExitFailed(order, n, reaped)
  \/ \E r \in targets, sp \in BOOLEAN : CopyDestroy(r, sp)
  \/ \E status \in {"0", "1", "none"} : CopyRmExit(status)

CopyInit ==
  /\ backend = "copy"
  /\ fs \in FreshFs \cup StaleFs
  /\ pc = "idle"
  /\ rootfs = Rootfs
  /\ layers = <<>>
  /\ idx = 0
  /\ whiteouts = <<>>
  /\ result = NoResult
  /\ trace = <<>>
  /\ cmds = <<>>
  /\ done = <<>>
  /\ ops = 0
  /\ budget = MaxOps
  /\ depth = MaxLayers
  /\ targets = {Rootfs}
  /\ other = NoOperation
  /\ arg = NoCall
  /\ ret = NoReturn
  /\ pre = EmptyTree

(***************************************************************************)
(* The Windows layer backend.  A wclayer command is a child process; the   *)
(* model records the commands started and lets each succeed or fail.       *)
(***************************************************************************)
\* std::to_string of a layer number
to_string(i) ==
  <<CASE i = 1 -> "1" [] i = 2 -> "2" [] i = 3 -> "3" [] i = 4 -> "4"
      [] i = 5 -> "5" [] i = 6 -> "6" [] i = 7 -> "7" [] i = 8 -> "8"
      [] OTHER -> "9">>

Reverse(sq) == [i \in 1..Len(sq) |-> sq[Len(sq) + 1 - i]]

\* rootfsPaths: the directory of each layer, numbered from 1 in stack order
RootfsPaths(ls, r) == [i \in 1..Len(ls) |-> Join(r, to_string(i))]

\* an import that numbers the directories from the top of the stack
ImportCmdTopNumbered(ls, r, i) ==
  [tool |-> "import",
   dir |-> PathValue(RootfsPaths(ls, r)[Len(ls) + 1 - i]),
   input |-> PathValue(Join(ls[i], <<"t", "a", "r">>)),
   layers |-> [j \in 1..(i - 1) |-> PathValue(RootfsPaths(ls, r)[Len(ls) + 1 - (i - j)])]]

\* an import that lists its parents from the base upwards
ImportCmdParentsBaseFirst(ls, r, i) ==
  [tool |-> "import",
   dir |-> PathValue(RootfsPaths(ls, r)[i]),
   input |-> PathValue(Join(ls[i], <<"t", "a", "r">>)),
   layers |-> [j \in 1..(i - 1) |-> PathValue(RootfsPaths(ls, r)[j])]]

\* the import of layer number i of the stack (i = 1 is started first): its
\* directory *layerRootfs, its tarball, and as parents the directories from
\* layerRootfs + 1 to rootfsPaths.rend()
ImportCmd(ls, r, i) ==
  [tool |-> "import",
   dir |-> PathValue(RootfsPaths(ls, r)[i]),
   input |-> PathValue(Join(ls[i], <<"t", "a", "r">>)),
   layers |-> [j \in 1..(i - 1) |-> PathValue(RootfsPaths(ls, r)[i - j])]]

\* scratchDir: backendDir/scratch/<basename of rootfs>
ScratchDir(r, bd) ==
  Join3(bd, <<"s", "c", "r", "a", "t", "c", "h">>, Basename(PathValue(r)))

\* rlayers in the order of rootfsPaths, the base first
RLayersUnreversed(ls, r) ==
  [i \in 1..Len(ls) |-> PathValue(RootfsPaths(ls, r)[i])]

\* rlayers: rootfsPaths reversed
RLayers(ls, r) ==
  LET paths == RootfsPaths(ls, r)
  IN  [i \in 1..Len(paths) |-> PathValue(Reverse(paths)[i])]

ScratchCmd(tool, ls, r, bd) ==
  [tool |-> tool, dir |-> PathValue(ScratchDir(r, bd)), input |-> <<>>,
   layers |-> RLayers(ls, r)]

DirCmd(tool, dir) ==
  [tool |-> tool, dir |-> PathValue(dir), input |-> <<>>, layers |-> <<>>]

\* the exit of the wclayer command that runs, the last one started
Exit(ok) ==
  Event(IF ok THEN "exit-0" ELSE "exit-failed", Len(cmds), cmds[Len(cmds)].dir)

\* what a wclayer command that succeeds does to the file system: import and
\* create make their directory, remove removes it
WclayerEffect(f, cmd) ==
  IF cmd.tool \in {"import", "create"} THEN OsMkdir(f, cmd.dir).fs
  ELSE IF cmd.tool = "remove" THEN RmRf(f, cmd.dir)
  ELSE f

\* WclayerBackendProcess::provision(layers, rootfs, backendDir): the check of
\* the layers, the mkdir of rootfs, and the first import; the later imports,
\* the create and the mount are chained on it
WclProvision(ls, r, mkdirFails) ==
  /\ backend = "wclayer"
  /\ ActorFree
  /\ ops < budget
  /\ ops' = ops + 1
  /\ pre' = EmptyTree
  /\ UNCHANGED <<budget, depth, targets, other, arg, ret>>
  /\ done' = Completed
  /\ rootfs' = r
  /\ layers' = ls
  /\ trace' = <<>>
  /\ UNCHANGED <<backend, whiteouts>>
  /\ LET mkdir == OsMkdir(fs, r)
     IN  IF Len(ls) = 0
           THEN /\ result' = Failure("provision", "No filesystem layer provided")
                /\ cmds' = <<>>
                /\ idx' = 0
                /\ UNCHANGED <<fs, pc>>
         ELSE IF mkdirFails \/ ~mkdir.ok
           THEN /\ result' = Failure("provision", "Failed to create container rootfs")
                /\ cmds' = <<>>
                /\ idx' = 0
                /\ UNCHANGED <<fs, pc>>
         ELSE /\ fs' = mkdir.fs
              /\ cmds' = <<ImportCmd(ls, r, 1)>>
              /\ result' = Pending("provision")
              /\ pc' = "import"
              /\ idx' = 1

\* imports that are started whatever the exit of the one before
WclImportExitStartsAnyway(ok) ==
  /\ backend = "wclayer"
  /\ pc = "import"
  /\ fs' = IF ok THEN WclayerEffect(fs, cmds[Len(cmds)]) ELSE fs
  /\ UNCHANGED result
  /\ IF idx < Len(layers)
       THEN /\ cmds' = Append(cmds, ImportCmd(layers, rootfs, idx + 1))
            /\ idx' = idx + 1
            /\ UNCHANGED pc
       ELSE /\ pc' = "defer-create"
            /\ UNCHANGED <<cmds, idx>>
  /\ trace' = Append(trace, Exit(ok))
  /\ UNCHANGED <<backend, rootfs, layers, whiteouts, done, ops, budget, depth, targets, other, arg, ret, pre>>

\* an import exits: a failure fails the provision; after a success the next
\* import is started, or after the last one the create is deferred
WclImportExit(ok) ==
  /\ backend = "wclayer"
  /\ pc = "import"
  /\ IF ~ok
       THEN /\ result' = Failure("provision", "wclayer import failed")
            /\ pc' = "idle"
            /\ UNCHANGED <<fs, cmds, idx>>
     ELSE /\ fs' = WclayerEffect(fs, cmds[Len(cmds)])
          /\ UNCHANGED result
          /\ IF idx < Len(layers)
               THEN /\ cmds' = Append(cmds, ImportCmd(layers, rootfs, idx + 1))
                    /\ idx' = idx + 1
                    /\ UNCHANGED pc
               ELSE /\ pc' = "defer-create"
                    /\ UNCHANGED <<cmds, idx>>
  /\ trace' = Append(trace, Exit(ok))
  /\ UNCHANGED <<backend, rootfs, layers, whiteouts, done, ops, budget, depth, targets, other, arg, ret, pre>>

\* a continuation of the imports that forgets the create and goes on to the
\* mount
WclCreateSkipped ==
  /\ backend = "wclayer"
  /\ pc = "defer-create"
  /\ cmds' = cmds
  /\ pc' = "defer-mount"
  /\ UNCHANGED <<backend, fs, rootfs, layers, idx, whiteouts, result, trace, done, ops, budget, depth, targets, other, arg, ret, pre>>

\* the deferred continuation of the imports: wclayer create of the scratch
\* directory over rlayers
WclCreate ==
  /\ backend = "wclayer"
  /\ pc = "defer-create"
  /\ cmds' = Append(cmds, ScratchCmd("create", layers, rootfs, BackendDir))
  /\ pc' = "create"
  /\ UNCHANGED <<backend, fs, rootfs, layers, idx, whiteouts, result, trace, done, ops, budget, depth, targets, other, arg, ret, pre>>

\* create exits: after a success the mount is deferred
WclCreateExit(ok) ==
  /\ backend = "wclayer"
  /\ pc = "create"
  /\ IF ok
       THEN /\ fs' = WclayerEffect(fs, cmds[Len(cmds)])
            /\ pc' = "defer-mount"
            /\ UNCHANGED result
       ELSE /\ result' = Failure("provision", "wclayer create failed")
            /\ pc' = "idle"
            /\ UNCHANGED fs
  /\ trace' = Append(trace, Exit(ok))
  /\ UNCHANGED <<backend, rootfs, layers, idx, whiteouts, cmds, done, ops, budget, depth, targets, other, arg, ret, pre>>

\* the deferred wclayer mount of the scratch directory over rlayers
WclMount ==
  /\ backend = "wclayer"
  /\ pc = "defer-mount"
  /\ cmds' = Append(cmds, ScratchCmd("mount", layers, rootfs, BackendDir))
  /\ pc' = "mount"
  /\ UNCHANGED <<backend, fs, rootfs, layers, idx, whiteouts, result, trace, done, ops, budget, depth, targets, other, arg, ret, pre>>

\* a provision that succeeds whatever the exit of the mount
WclMountExitAlwaysTrue(ok) ==
  /\ backend = "wclayer"
  /\ pc = "mount"
  /\ result' = Ready("provision")
  /\ pc' = "idle"
  /\ trace' = Append(trace, Exit(ok))
  /\ UNCHANGED <<backend, fs, rootfs, layers, idx, whiteouts, cmds, done, ops, budget, depth, targets, other, arg, ret, pre>>

\* mount exits: its result is the result of the provision
WclMountExit(ok) ==
  /\ backend = "wclayer"
  /\ pc = "mount"
  /\ result' = IF ok THEN Ready("provision")
               ELSE Failure("provision", "wclayer mount failed")
  /\ pc' = "idle"
  /\ trace' = Append(trace, Exit(ok))
  /\ UNCHANGED <<backend, fs, rootfs, layers, idx, whiteouts, cmds, done, ops, budget, depth, targets, other, arg, ret, pre>>

\* WclayerBackendProcess::destroy(rootfs, backendDir): wclayer unmount of the
\* scratch directory, with the two removes and `return true` chained on it
WclDestroy(r) ==
  /\ backend = "wclayer"
  /\ ActorFree
  /\ ops < budget
  /\ ops' = ops + 1
  /\ pre' = EmptyTree
  /\ UNCHANGED <<budget, depth, targets, other, arg, ret>>
  /\ done' = Completed
  /\ rootfs' = r
  /\ layers' = <<>>
  /\ idx' = 0
  /\ trace' = <<>>
  /\ cmds' = <<DirCmd("unmount", ScratchDir(r, BackendDir))>>
  /\ result' = Pending("destroy")
  /\ pc' = "unmount"
  /\ UNCHANGED <<backend, fs, whiteouts>>

\* a destroy that goes on to the next command whatever the exit of a remove
WclDestroyExitIgnoresRemove(ok) ==
  /\ backend = "wclayer"
  /\ pc \in {"unmount", "remove-scratch", "remove-rootfs"}
  /\ IF ~ok /\ pc = "unmount"
       THEN /\ result' = Failure("destroy", "wclayer failed")
            /\ pc' = "idle"
            /\ UNCHANGED <<fs, cmds>>
     ELSE /\ fs' = IF ok THEN WclayerEffect(fs, cmds[Len(cmds)]) ELSE fs
          /\ UNCHANGED result
          /\ IF pc = "unmount"
               THEN /\ cmds' = Append(cmds, DirCmd("remove", ScratchDir(rootfs, BackendDir)))
                    /\ pc' = "remove-scratch"
             ELSE IF pc = "remove-scratch"
               THEN /\ cmds' = Append(cmds, DirCmd("remove", rootfs))
                    /\ pc' = "remove-rootfs"
             ELSE /\ pc' = "defer-true"
                  /\ UNCHANGED cmds
  /\ trace' = Append(trace, Exit(ok))
  /\ UNCHANGED <<backend, rootfs, layers, idx, whiteouts, done, ops, budget, depth, targets, other, arg, ret, pre>>

\* a command of destroy exits: a failure fails the destroy, for .then() runs
\* its function only on success; after a success the next command is started:
\* remove of the scratch directory, remove of rootfs, then the deferred
\* `return true`
WclDestroyExit(ok) ==
  /\ backend = "wclayer"
  /\ pc \in {"unmount", "remove-scratch", "remove-rootfs"}
  /\ IF ~ok
       THEN /\ result' = Failure("destroy", "wclayer failed")
            /\ pc' = "idle"
            /\ UNCHANGED <<fs, cmds>>
     ELSE /\ fs' = WclayerEffect(fs, cmds[Len(cmds)])
          /\ UNCHANGED result
          /\ IF pc = "unmount"
               THEN /\ cmds' = Append(cmds, DirCmd("remove", ScratchDir(rootfs, BackendDir)))
                    /\ pc' = "remove-scratch"
             ELSE IF pc = "remove-scratch"
               THEN /\ cmds' = Append(cmds, DirCmd("remove", rootfs))
                    /\ pc' = "remove-rootfs"
             ELSE /\ pc' = "defer-true"
                  /\ UNCHANGED cmds
  /\ trace' = Append(trace, Exit(ok))
  /\ UNCHANGED <<backend, rootfs, layers, idx, whiteouts, done, ops, budget, depth, targets, other, arg, ret, pre>>

\* the deferred `return true` of destroy
WclDestroyTrue ==
  /\ backend = "wclayer"
  /\ pc = "defer-true"
  /\ result' = Ready("destroy")
  /\ pc' = "idle"
  /\ UNCHANGED <<backend, fs, rootfs, layers, idx, whiteouts, trace, cmds, done, ops, budget, depth, targets, other, arg, ret, pre>>

WclNext ==
  \/ \E ls \in Stacks(depth), r \in targets, m \in BOOLEAN : WclProvision(ls, r, m)
  \/ \E ok \in BOOLEAN : WclImportExit(ok)
  \/ WclCreate
  \/ \E ok \in BOOLEAN : WclCreateExit(ok)
  \/ WclMount
  \/ \E ok \in BOOLEAN : WclMountExit(ok)
  \/ \E r \in targets : WclDestroy(r)
  \/ \E ok \in BOOLEAN : WclDestroyExit(ok)
  \/ WclDestroyTrue

\* the file systems a run of the Windows layer backend starts on: the layers
\* hold their tarball; rootfs does not exist, or exists already
WclFs ==
  LET f == BaseFs @@ <<<<"a">>, <<"t", "a", "r">>>> :> FileNode(<<"A">>)
                  @@ <<<<"b">>, <<"t", "a", "r">>>> :> FileNode(<<"B">>)
  IN  { f,
        f @@ <<<<"r">>>> :> DirNode @@ <<<<"r">>, NameK>> :> FileNode(<<"R">>),
        f @@ <<<<"r">>>> :> FileNode(<<"R">>) }

WclInit ==
  /\ backend = "wclayer"
  /\ fs \in WclFs
  /\ pc = "idle"
  /\ rootfs = Rootfs
  /\ layers = <<>>
  /\ idx = 0
  /\ whiteouts = <<>>
  /\ result = NoResult
  /\ trace = <<>>
  /\ cmds = <<>>
  /\ done = <<>>
  /\ ops = 0
  /\ budget = MaxOps
  /\ depth = MaxLayers
  /\ targets = {Rootfs}
  /\ other = NoOperation
  /\ arg = NoCall
  /\ ret = NoReturn
  /\ pre = EmptyTree

Init == CopyInit \/ WclInit

Next == CopyNext \/ WclNext

\* one operation on every file system of the inputs
Spec == Init /\ [][Next]_vars

(***************************************************************************)
(* The life of a rootfs: several operations, one after the other has       *)
(* completed, on a few file systems.                                       *)
(***************************************************************************)
LifeFs ==
  LET D == <<NameD>> :> DirNode
  IN  {BaseFs @@ Graft(<<<<"a">>>>, ta) @@ Graft(<<<<"b">>>>, tb) :
         ta \in { D @@ <<NameD, NameN>> :> FileNode(<<"A">>)
                    @@ <<NameD, NameK>> :> FileNode(<<"A">>),
                  D @@ <<NameD, NameN>> :> LinkNode(ExtDir) },
         tb \in { D @@ <<NameD, NameWhN>> :> FileNode(<<"B">>),
                  <<NameD>> :> FileNode(<<"B">>) }}

LifeInit ==
  /\ backend \in {"copy", "wclayer"}
  /\ fs \in IF backend = "copy" THEN LifeFs ELSE WclFs
  /\ pc = "idle"
  /\ rootfs = Rootfs
  /\ layers = <<>>
  /\ idx = 0
  /\ whiteouts = <<>>
  /\ result = NoResult
  /\ trace = <<>>
  /\ cmds = <<>>
  /\ done = <<>>
  /\ ops = 0
  /\ budget = MaxLifeOps
  /\ depth = MaxLayers
  /\ targets = {Rootfs}
  /\ other = NoOperation
  /\ arg = NoCall
  /\ ret = NoReturn
  /\ pre = EmptyTree

SpecLife == LifeInit /\ [][Next]_vars

\* the positions of an operation in flight
Positions ==
  {"idle", "layer", "cp", "rm", "import", "defer-create", "create",
   "defer-mount", "mount", "unmount", "remove-scratch", "remove-rootfs",
   "defer-true"}

\* the operation in flight moves on: the child it waits for exits, or the
\* continuation chained on a future that has completed is run by the actor.
\* The action names the position the step leaves and constrains nothing else:
\* which step it is, Next says
Progress ==
  /\ pc # "idle"
  /\ pc' \in Positions
  /\ idx' \in 0..(Len(layers) + 1)

\* a backend running several operations, every child process it starts exiting
\* eventually and every continuation that is ready being run eventually: an
\* operation in flight does not stay at one position for ever
SpecLifeFair == LifeInit /\ [][Next]_vars /\ WF_<<pc, idx>>(Progress)

(***************************************************************************)
(* Deeper stacks: one operation with up to MaxDeepLayers layers, on a few  *)
(* file systems.                                                           *)
(***************************************************************************)
DeepFs ==
  LET D == <<NameD>> :> DirNode
  IN  {BaseFs @@ Graft(<<<<"a">>>>, ta) @@ Graft(<<<<"b">>>>, tb) :
         ta \in { D @@ <<NameD, NameN>> :> FileNode(<<"A">>),
                  D @@ <<NameD, NameN>> :> FileNode(<<"A">>)
                    @@ <<NameD, NameK>> :> FileNode(<<"A">>),
                  D @@ <<NameD, NameN>> :> FileNode(<<"A">>)
                    @@ <<NameD, NameWhN>> :> DirNode },
         tb \in { D,
                  D @@ <<NameD, NameN>> :> FileNode(<<"B">>),
                  <<NameD>> :> FileNode(<<"B">>),
                  <<NameD>> :> LinkNode(ExtDir),
                  D @@ <<NameD, NameWhN>> :> FileNode(<<"B">>),
                  D @@ <<NameD, NameOpq>> :> FileNode(<<"B">>)
                    @@ <<NameD, NameK>> :> FileNode(<<"B">>),
                  D @@ <<NameD, NameOpq>> :> FileNode(<<"B">>)
                    @@ <<NameD, NameWhN>> :> FileNode(<<"B">>),
                  D @@ <<NameD, NameWh>> :> FileNode(<<"B">>),
                  <<NameWhUp>> :> FileNode(<<"B">>),
                  D @@ <<NameD, NameWhWhN>> :> FileNode(<<"B">>)
                    @@ <<NameD, NameWhN>> :> FileNode(<<"B">>),
                  <<NameOpq>> :> FileNode(<<"B">>)
                    @@ <<NameK>> :> FileNode(<<"B">>) }}

DeepInit ==
  /\ backend \in {"copy", "wclayer"}
  /\ fs \in IF backend = "copy" THEN DeepFs ELSE WclFs
  /\ pc = "idle"
  /\ rootfs = Rootfs
  /\ layers = <<>>
  /\ idx = 0
  /\ whiteouts = <<>>
  /\ result = NoResult
  /\ trace = <<>>
  /\ cmds = <<>>
  /\ done = <<>>
  /\ ops = 0
  /\ budget = MaxOps
  /\ depth = MaxDeepLayers
  /\ targets = {Rootfs}
  /\ other = NoOperation
  /\ arg = NoCall
  /\ ret = NoReturn
  /\ pre = EmptyTree

SpecDeep == DeepInit /\ [][Next]_vars

(***************************************************************************)
(* Two rootfs paths with the same basename under different parents: up to  *)
(* MaxPathOps operations, one after the other has completed, each on       *)
(* either path.                                                            *)
(***************************************************************************)
PathsInit ==
  /\ backend \in {"copy", "wclayer"}
  /\ fs \in IF backend = "copy" THEN LifeFs ELSE WclFs
  /\ pc = "idle"
  /\ rootfs = Rootfs
  /\ layers = <<>>
  /\ idx = 0
  /\ whiteouts = <<>>
  /\ result = NoResult
  /\ trace = <<>>
  /\ cmds = <<>>
  /\ done = <<>>
  /\ ops = 0
  /\ budget = MaxPathOps
  /\ depth = MaxLayers
  /\ targets = {Rootfs, OtherRootfs}
  /\ other = NoOperation
  /\ arg = NoCall
  /\ ret = NoReturn
  /\ pre = EmptyTree

SpecPaths == PathsInit /\ [][Next]_vars

(***************************************************************************)
(* Two Copy backend instances on one file system.  Each is its own actor   *)
(* with its own operation in flight; a step of the run is a handler or a   *)
(* child's exit of either.  The handlers above act for the instance whose  *)
(* operation the variables hold; Swap hands the turn to the other one,     *)
(* which is possible whenever an operation is in flight.                   *)
(***************************************************************************)
Swap ==
  /\ backend = "copy"
  /\ pc # "idle" \/ other.pc # "idle"
  /\ other' = [pc |-> pc, rootfs |-> rootfs, layers |-> layers, idx |-> idx,
               whiteouts |-> whiteouts, result |-> result, trace |-> trace,
               done |-> done, pre |-> pre]
  /\ pc' = other.pc
  /\ rootfs' = other.rootfs
  /\ layers' = other.layers
  /\ idx' = other.idx
  /\ whiteouts' = other.whiteouts
  /\ result' = other.result
  /\ trace' = other.trace
  /\ done' = other.done
  /\ pre' = other.pre
  /\ UNCHANGED <<backend, fs, cmds, ops, budget, depth, targets, arg, ret>>

\* the file system of a run of two instances on sound layers: a layer with a
\* symbolic link into the rootfs /r, below a layer with a whiteout file for it
PairFs ==
  LET D == <<NameD>> :> DirNode
  IN  { BaseFs @@ Graft(<<<<"a">>>>, D @@ <<NameD, NameN>> :> LinkNode(InsideFile))
               @@ Graft(<<<<"b">>>>, D @@ <<NameD, NameWhN>> :> FileNode(<<"B">>)) }

\* the file system of a run of two instances on a layer that holds the
\* whiteout file `.wh...`
PairUpFs ==
  { BaseFs @@ Graft(<<<<"a">>>>, <<NameWhUp>> :> FileNode(<<"A">>)) }

PairInit ==
  /\ backend \in {"copy", "wclayer"}
  /\ fs \in IF backend = "copy" THEN PairFs \cup PairUpFs ELSE WclFs
  /\ pc = "idle"
  /\ rootfs = Rootfs
  /\ layers = <<>>
  /\ idx = 0
  /\ whiteouts = <<>>
  /\ result = NoResult
  /\ trace = <<>>
  /\ cmds = <<>>
  /\ done = <<>>
  /\ ops = 0
  /\ budget = MaxPairOps
  /\ depth = IF fs \in PairUpFs THEN 1 ELSE MaxLayers
  /\ targets = {Rootfs, OtherRootfs}
  /\ other = NoOperation
  /\ arg = NoCall
  /\ ret = NoReturn
  /\ pre = EmptyTree

PairNext == Next \/ Swap

SpecPair == PairInit /\ [][PairNext]_vars

(***************************************************************************)
(* The library functions on their own: a run is one function applied to    *)
(* arguments drawn from bounded sets.  basic_path::dirname is applied in   *)
(* one step; the loop of strings::remove runs one iteration a step;        *)
(* os::mkdtemp (Windows) is called MaxTempCalls times on one file system.  *)
(***************************************************************************)
\* the strings over the characters cs of length n, and of length up to n
RECURSIVE StringsOfLen(_, _)
StringsOfLen(cs, n) ==
  IF n = 0 THEN {<<>>}
  ELSE {Append(t, c) : t \in StringsOfLen(cs, n - 1), c \in cs}

StringsUpTo(cs, n) == UNION {StringsOfLen(cs, k) : k \in 0..n}

\* the paths dirname is applied to
DirnameInputs == StringsUpTo({SEP, "u"}, MaxPathLen)

\* the strings and substrings remove is applied to
RemoveInputs ==
  [fn : {"remove"}, from : StringsUpTo({"a", "b"}, MaxFromLen),
   substring : StringsUpTo({"a", "b"}, MaxSubLen),
   mode : {"PREFIX", "SUFFIX", "ANY"}]

\* the alphabet of os::mkdtemp, cut down to its first, second and last
\* character, and the largest index the code draws: the size of the array,
\* which counts the terminating null, minus 2
TempAlphabet == <<"0", "1", "z">>
maxAlphabetIndex == (Len(TempAlphabet) + 1) - 2
postfixTemplate == <<"X", "X", "X", "X", "X", "X">>

\* the values the random generator returns for the six characters of a call
Draws == {[i \in 1..6 |-> IF i = 6 THEN g ELSE 0] : g \in 0..MaxDraw}

\* the postfix os::mkdtemp makes of six values of the generator
Postfix(draws) == [i \in 1..6 |-> TempAlphabet[(draws[i] % maxAlphabetIndex) + 1]]

\* the templates os::mkdtemp is called with: a valid one in the directory
\* /w, one in a directory that does not exist, one that ends in five X
TempTemplates ==
  { <<SEP, "w", SEP, "t">> \o postfixTemplate,
    <<SEP, "q", SEP, "t">> \o postfixTemplate,
    <<SEP, "w", SEP, "t", "X", "X", "X", "X", "X">> }

\* the file systems os::mkdtemp is called on: /w empty, or holding already a
\* directory or a file with the name of a postfix
TempFs ==
  LET taken == <<<<"w">>, <<"t">> \o Postfix([i \in 1..6 |-> 0])>>
  IN  {BaseFs, BaseFs @@ taken :> DirNode, BaseFs @@ taken :> FileNode(<<"E">>)}

\* CreateDirectoryW: creates the directory unless the path exists or its
\* parent is not a directory
CreateDirectoryW(f, s) ==
  LET comps == Components(s)
      up == Walk(f, <<>>, Parent(comps), TRUE, MaxLinkDepth)
  IN  IF comps = <<>> \/ Exists(f, s) \/ ~up.ok THEN [ok |-> FALSE, fs |-> f]
      ELSE IF NodeAt(f, up.path).kind # "dir" THEN [ok |-> FALSE, fs |-> f]
      ELSE [ok |-> TRUE, fs |-> Put(f, Append(up.path, comps[Len(comps)]), DirNode)]

\* os::mkdir (Windows) with recursive = false
WinMkdir(f, s) ==
  IF Exists(f, s) THEN [ok |-> TRUE, fs |-> f]
  ELSE CreateDirectoryW(f, s)

\* os::mkdtemp (Windows) on the path template, the generator returning draws
Mkdtemp(f, template, draws) ==
  IF ~EndsWith(template, postfixTemplate)
    THEN [ok |-> FALSE, value |-> <<>>, fs |-> f]
  ELSE
    LET tempPath == SubstrN(template, 0, Len(template) - Len(postfixTemplate))
                      \o Postfix(draws)
        mkdir == WinMkdir(f, tempPath)
    IN  IF ~mkdir.ok THEN [ok |-> FALSE, value |-> <<>>, fs |-> f]
        ELSE [ok |-> TRUE, value |-> tempPath, fs |-> mkdir.fs]

\* basic_string::erase(index, n)
Erase(str, index, n) == SubstrN(str, 0, index) \o Substr(str, Min(Len(str), index + n))

StoutInit ==
  /\ backend = "stout"
  /\ fs \in TempFs
  /\ pc = "idle"
  /\ rootfs = Rootfs
  /\ layers = <<>>
  /\ idx = 0
  /\ whiteouts = <<>>
  /\ result = NoResult
  /\ trace = <<>>
  /\ cmds = <<>>
  /\ done = <<>>
  /\ ops = 0
  /\ budget = 0
  /\ depth = 0
  /\ targets = {}
  /\ other = NoOperation
  /\ arg \in [fn : {"dirname"}, path : DirnameInputs] \cup RemoveInputs
               \cup [fn : {"mkdtemp"}, path : TempTemplates]
  /\ (arg.fn # "mkdtemp") => (fs = BaseFs)
  /\ ret = NoReturn
  /\ pre = EmptyTree

\* basic_path(arg.path).dirname()
CallDirname ==
  /\ arg.fn = "dirname"
  /\ ret = NoReturn
  /\ ret' = [at |-> "returned", value |-> Dirname(arg.path)]
  /\ UNCHANGED <<backend, fs, pc, rootfs, layers, idx, whiteouts, result, trace, cmds,
                 done, ops, budget, depth, targets, other, arg, pre>>

\* strings::remove(arg.from, arg.substring, arg.mode) up to its loop: modes
\* PREFIX and SUFFIX return at once, mode ANY enters the loop
RemoveEnter ==
  /\ arg.fn = "remove"
  /\ ret = NoReturn
  /\ ret' = IF arg.mode = "ANY"
              THEN [at |-> "loop", value |-> arg.from, iterations |-> 0]
              ELSE [at |-> "returned",
                    value |-> Remove(arg.from, arg.substring, arg.mode)]
  /\ UNCHANGED <<backend, fs, pc, rootfs, layers, idx, whiteouts, result, trace, cmds,
                 done, ops, budget, depth, targets, other, arg, pre>>

\* one evaluation of the loop condition of strings::remove, and the body when
\* it holds; the iterations are counted up to MaxIterations
RemoveIterate ==
  /\ arg.fn = "remove"
  /\ ret.at = "loop"
  /\ LET index == Find(ret.value, arg.substring)
     IN  IF index = npos
           THEN ret' = [at |-> "returned", value |-> ret.value]
           ELSE /\ ret.iterations < MaxIterations
                /\ ret' = [ret EXCEPT !.value = Erase(ret.value, index, Len(arg.substring)),
                                      !.iterations = ret.iterations + 1]
  /\ UNCHANGED <<backend, fs, pc, rootfs, layers, idx, whiteouts, result, trace, cmds,
                 done, ops, budget, depth, targets, other, arg, pre>>

\* a call os::mkdtemp(arg.path); the calls made so far are kept with the file
\* system each started on
CallMkdtemp(draws) ==
  /\ arg.fn = "mkdtemp"
  /\ LET calls == IF ret = NoReturn THEN <<>> ELSE ret.calls
         r == Mkdtemp(fs, arg.path, draws)
     IN  /\ Len(calls) < MaxTempCalls
         /\ fs' = r.fs
         /\ ret' = [at |-> "returned",
                    calls |-> Append(calls, [ok |-> r.ok, value |-> r.value, before |-> fs])]
  /\ UNCHANGED <<backend, pc, rootfs, layers, idx, whiteouts, result, trace, cmds,
                 done, ops, budget, depth, targets, other, arg, pre>>

StoutNext ==
  \/ CallDirname
  \/ RemoveEnter
  \/ RemoveIterate
  \/ \E draws \in Draws : CallMkdtemp(draws)

SpecStout == StoutInit /\ [][StoutNext]_vars


(***************************************************************************)
(* The properties.                                                         *)
(***************************************************************************)
\* the canonical path of rootfs
RootC == Components(rootfs)

\* the tree below directory p of f, by paths relative to p
TreeAt(f, p) ==
  [q \in {SubSeq(x, Len(p) + 1, Len(x)) : x \in {y \in DOMAIN f : IsPrefix(p, y) /\ y # p}}
     |-> f[p \o q]]

\* the tree of layer number j of the stack being provisioned
LayerTree(j) == TreeAt(fs, Components(layers[j]))

\* the step is the dispatch of provision
ProvisionStep == ops' = ops + 1 /\ result'.op = "provision"

\* C1: for both backends, provision with an empty layer list fails, and it
\* fails before any side effect: the file system is as it was (rootfs is not
\* created) and the operation has started no cp or wclayer child process.
C1_EmptyLayersFail ==
  [][(ProvisionStep /\ layers' = <<>>) =>
       /\ result'.status = "failed"
       /\ result'.error = IF backend = "copy" THEN "No filesystem layers provided"
                          ELSE "No filesystem layer provided"
       /\ fs' = fs
       /\ pc' = "idle"
       /\ trace' = <<>>
       /\ cmds' = <<>>]_vars

\* a Copy provision of no layers has failed on a file system without rootfs
C1_Witness ==
  /\ backend = "copy"
  /\ result = Failure("provision", "No filesystem layers provided")
  /\ layers = <<>>
  /\ ~Exists(fs, rootfs)

\* C2: Copy backend: provision of a non-empty layer list on a rootfs path that
\* exists (a directory, a file or a symbolic link) fails with "Rootfs is
\* already provisioned", leaves the file system as it was, and no layer is
\* scanned or copied.
C2_AlreadyProvisioned ==
  [][(ProvisionStep /\ backend = "copy" /\ layers' # <<>> /\ Exists(fs, rootfs')) =>
       /\ result' = Failure("provision", "Rootfs is already provisioned")
       /\ fs' = fs
       /\ pc' = "idle"
       /\ trace' = <<>>]_vars

\* a Copy provision was refused on a rootfs that is a dangling symbolic link
C2_Witness ==
  /\ backend = "copy"
  /\ result = Failure("provision", "Rootfs is already provisioned")
  /\ layers # <<>>
  /\ IsLink(fs, rootfs)
  /\ ~IsDir(fs, rootfs)
  /\ Lookup(fs, rootfs, TRUE).ok = FALSE

\* C3: Windows layer backend: provision of a non-empty layer list on a rootfs
\* path that exists fails, and starts no wclayer import, create or mount.
C3_WclAlreadyProvisioned ==
  [][(ProvisionStep /\ backend = "wclayer" /\ layers' # <<>> /\ Exists(fs, rootfs')) =>
       /\ result'.status = "failed"
       /\ cmds' = <<>>
       /\ pc' = "idle"]_vars

\* the operation completed last before the one in result
LastDone == IF done = <<>> THEN <<"none", "none">> ELSE done[Len(done)]

\* C4: Copy backend: when provision on rootfs succeeded and the destroy that
\* follows it on the same rootfs succeeds, destroy resolves to true and
\* rootfs does not exist.
C4_DestroyAfterProvision ==
  (/\ backend = "copy"
   /\ result.op = "destroy"
   /\ result.status = "ok"
   /\ LastDone = <<"provision", "ok">>) =>
    /\ result.value = TRUE
    /\ ~Exists(fs, rootfs)

\* destroy has succeeded right after a provision that succeeded
C4_Witness ==
  /\ backend = "copy"
  /\ result = Ready("destroy")
  /\ LastDone = <<"provision", "ok">>
  /\ ~Exists(fs, rootfs)

\* C5: destroy of a rootfs path that does not exist completes with a failure,
\* not with true.
C5_DestroyMissingFails ==
  [][(backend = "copy" /\ pc = "rm" /\ pc' = "idle" /\ ~Exists(fs, rootfs)) =>
       result'.status = "failed"]_vars


\* the Copy provision has succeeded
CopySucceeded == backend = "copy" /\ pc = "idle" /\ result = Ready("provision")

\* layer number j of the stack has just been applied: copied, and its
\* whiteout files removed; pre is then the file system before its scan
JustApplied(j) ==
  /\ backend = "copy"
  /\ j >= 1
  /\ \/ pc = "layer" /\ idx = j + 1
     \/ CopySucceeded /\ idx = j

\* the scan of layer number j is over and its cp is about to run
CopyStarting(j) == backend = "copy" /\ pc = "cp" /\ idx = j

\* the entry at q of the tree is a regular file named like a whiteout
WhiteoutFile(tree, q) ==
  tree[q].kind = "file" /\ StartsWith(q[Len(q)], WHITEOUT_PREFIX)

\* the tree without its whiteout files
Visible(tree) == [q \in {x \in DOMAIN tree : ~WhiteoutFile(tree, x)} |-> tree[q]]

\* the sibling that the whiteout file at m names
Sibling(m) == Append(Parent(m), Substr(m[Len(m)], Len(WHITEOUT_PREFIX)))

\* C6: Copy backend: for every layer stack in which a lower layer has an entry
\* at d/n and a higher layer has the regular file d/.wh.n, and neither that
\* layer nor a higher one has d/n, the rootfs after a successful provision
\* has no entry d/n and no entry d/.wh.n.
C6_WhiteoutHonored ==
  CopySucceeded =>
    \A j \in 1..Len(layers) : \A m \in DOMAIN LayerTree(j) :
      (/\ WhiteoutFile(LayerTree(j), m)
       /\ m[Len(m)] # WHITEOUT_OPAQUE_PREFIX
       /\ \E i \in 1..(j - 1) : Sibling(m) \in DOMAIN LayerTree(i)
       /\ \A k \in j..Len(layers) : Sibling(m) \notin DOMAIN LayerTree(k)
       /\ \A k \in (j + 1)..Len(layers) : m \notin DOMAIN LayerTree(k))
      => /\ RootC \o Sibling(m) \notin DOMAIN fs
         /\ RootC \o m \notin DOMAIN fs

\* C7: Copy backend: when a layer has dir/.wh..wh..opq, then after that layer
\* is applied rootfs/dir holds exactly the entries this layer has under dir,
\* without the whiteout files, for every order of the walk.
C7_OpaqueDirectory ==
  \A j \in 1..Len(layers) :
    JustApplied(j) =>
      \A o \in DOMAIN LayerTree(j) :
        (WhiteoutFile(LayerTree(j), o) /\ o[Len(o)] = WHITEOUT_OPAQUE_PREFIX) =>
          /\ RootC \o Parent(o) \in DOMAIN fs
          /\ TreeAt(fs, RootC \o Parent(o)) = Visible(TreeAt(LayerTree(j), Parent(o)))

\* C8 as the specification states it: after a successful Copy provision no
\* path of rootfs has a basename that begins with .wh., whatever the layers
\* hold.
C8_NoWhiteoutNames ==
  CopySucceeded =>
    \A x \in DOMAIN fs :
      (IsPrefix(RootC, x) /\ x # RootC) => ~StartsWith(x[Len(x)], WHITEOUT_PREFIX)

\* C8, amended: after a successful Copy provision no regular file of rootfs
\* has a basename that begins with .wh.; a directory or a symbolic link with
\* such a name is an entry like any other and is the one a layer holds there.
C8_NoWhiteoutFiles ==
  CopySucceeded =>
    \A x \in DOMAIN fs :
      (IsPrefix(RootC, x) /\ x # RootC /\ StartsWith(x[Len(x)], WHITEOUT_PREFIX)) =>
        /\ fs[x].kind # "file"
        /\ \E j \in 1..Len(layers) :
             LET q == SubSeq(x, Len(RootC) + 1, Len(x))
             IN  q \in DOMAIN LayerTree(j) /\ LayerTree(j)[q].kind = fs[x].kind

\* a provision has succeeded whose stack held a whiteout file, and rootfs
\* holds a directory or a symbolic link named like one
C8_Witness ==
  /\ CopySucceeded
  /\ \E j \in 1..Len(layers) : \E m \in DOMAIN LayerTree(j) : WhiteoutFile(LayerTree(j), m)
  /\ \E x \in DOMAIN fs :
       /\ IsPrefix(RootC, x) /\ x # RootC
       /\ StartsWith(x[Len(x)], WHITEOUT_PREFIX)
       /\ fs[x].kind # "file"


\* rootfs/p was a symbolic link when the scan of the layer began
WasLink(p) == RootC \o p \in DOMAIN pre /\ pre[RootC \o p].kind = "link"

\* f holds at canonical path c what g holds there, with all that is below
SameAt(f, g, c) ==
  /\ c \in DOMAIN f
  /\ f[c] = g[c]
  /\ TreeAt(f, c) = TreeAt(g, c)

\* layer number j has an entry or a whiteout file for the path c of rootfs, for
\* something above it or for something below it
Touches(j, c) ==
  \E q \in DOMAIN LayerTree(j) :
    LET a == RootC \o q
    IN  \/ IsPrefix(c, a)
        \/ IsPrefix(a, c) /\ LayerTree(j)[q].kind # "dir"
        \/ /\ WhiteoutFile(LayerTree(j), q)
           /\ IF q[Len(q)] = WHITEOUT_OPAQUE_PREFIX
                THEN IsPrefix(Parent(a), c)
                ELSE IsPrefix(RootC \o Sibling(q), c)

\* what the link at rootfs/p pointed to when the scan of layer j began is as
\* it was, unless layer j has its own entry or whiteout for that path
TargetKept(j, p) ==
  LET link == RootC \o p
      target == pre[link].data
      t == Walk(pre, IF StartsWith(target, <<SEP>>) THEN <<>> ELSE Parent(link),
                Components(target), FALSE, MaxLinkDepth)
  IN  (t.ok /\ t.path # <<>> /\ ~Touches(j, t.path)) => SameAt(fs, pre, t.path)

\* the link at rootfs/p is gone when cp of layer j starts
LinkRemovedBeforeCopy(j) ==
  CopyStarting(j) =>
    \A p \in DOMAIN LayerTree(j) :
      WasLink(p) =>
        RootC \o p \notin DOMAIN fs

\* C9 as the specification states it: when rootfs/p is a symbolic link left
\* by a lower layer and a higher layer has an entry at p, the link is removed
\* before the copy of that layer, the merged rootfs/p is the higher layer's
\* entry, and what the link pointed to is neither modified nor deleted.
C9_LinkReplaced ==
  \A j \in 1..Len(layers) :
    /\ LinkRemovedBeforeCopy(j)
    /\ JustApplied(j) =>
         \A p \in DOMAIN LayerTree(j) :
           WasLink(p) =>
             /\ RootC \o p \in DOMAIN fs
             /\ fs[RootC \o p] = LayerTree(j)[p]
             /\ TargetKept(j, p)

\* C9, amended: the same, except that when the higher layer's entry at p is a
\* whiteout file there is no rootfs/p after the layer is applied.
C9_LinkReplacedOrWhitedOut ==
  \A j \in 1..Len(layers) :
    /\ LinkRemovedBeforeCopy(j)
    /\ JustApplied(j) =>
         \A p \in DOMAIN LayerTree(j) :
           WasLink(p) =>
             /\ IF WhiteoutFile(LayerTree(j), p)
                  THEN RootC \o p \notin DOMAIN fs
                  ELSE RootC \o p \in DOMAIN fs /\ fs[RootC \o p] = LayerTree(j)[p]
             /\ TargetKept(j, p)

\* a layer with a regular file at p was applied over a link at rootfs/p that
\* pointed to a file outside rootfs
C9_Witness ==
  \E j \in 1..Len(layers) :
    /\ JustApplied(j)
    /\ \E p \in DOMAIN LayerTree(j) :
         /\ WasLink(p)
         /\ pre[RootC \o p].data = ExtFile
         /\ LayerTree(j)[p].kind = "file"
         /\ ~WhiteoutFile(LayerTree(j), p)

\* rootfs/p existed when the scan of layer j began and the layer's entry at p
\* is of the other kind
KindChange(j, p) ==
  /\ RootC \o p \in DOMAIN pre
  /\ (LayerTree(j)[p].kind = "dir") # (pre[RootC \o p].kind = "dir")

\* rootfs/p and all below it are gone when cp of layer j starts
OldRemovedBeforeCopy(j) ==
  CopyStarting(j) =>
    \A p \in DOMAIN LayerTree(j) :
      KindChange(j, p) => \A x \in DOMAIN fs : ~IsPrefix(RootC \o p, x)

\* C10 as the specification states it: when rootfs/p exists from lower layers
\* and a higher layer has an entry at p of the other kind, rootfs/p is
\* deleted with its subtree before that layer is copied, and the merged
\* rootfs/p is exactly the higher layer's entry with nothing of the old one.
C10_KindChange ==
  \A j \in 1..Len(layers) :
    /\ OldRemovedBeforeCopy(j)
    /\ JustApplied(j) =>
         \A p \in DOMAIN LayerTree(j) :
           KindChange(j, p) =>
             /\ RootC \o p \in DOMAIN fs
             /\ fs[RootC \o p] = LayerTree(j)[p]
             /\ TreeAt(fs, RootC \o p) = Visible(TreeAt(LayerTree(j), p))

\* C10, amended: the same, except that when the higher layer's entry at p is
\* a whiteout file there is no rootfs/p after the layer is applied.
C10_KindChangeOrWhitedOut ==
  \A j \in 1..Len(layers) :
    /\ OldRemovedBeforeCopy(j)
    /\ JustApplied(j) =>
         \A p \in DOMAIN LayerTree(j) :
           KindChange(j, p) =>
             IF WhiteoutFile(LayerTree(j), p)
               THEN RootC \o p \notin DOMAIN fs
               ELSE /\ RootC \o p \in DOMAIN fs
                    /\ fs[RootC \o p] = LayerTree(j)[p]
                    /\ TreeAt(fs, RootC \o p) = Visible(TreeAt(LayerTree(j), p))

\* a layer with a regular file at p was applied over a directory at rootfs/p
\* that was not empty
C10_Witness ==
  \E j \in 1..Len(layers) :
    /\ JustApplied(j)
    /\ \E p \in DOMAIN LayerTree(j) :
         /\ KindChange(j, p)
         /\ pre[RootC \o p].kind = "dir"
         /\ DOMAIN TreeAt(pre, RootC \o p) # {}
         /\ LayerTree(j)[p].kind = "file"
         /\ ~WhiteoutFile(LayerTree(j), p)


\* the layers of the stack that have an entry at p, and the highest of a set
Holders(p) == {j \in 1..Len(layers) : p \in DOMAIN LayerTree(j)}
Highest(S) == CHOOSE j \in S : \A k \in S : k <= j

\* the paths of the entries of the layers of the stack
LayerPaths == UNION {DOMAIN LayerTree(j) : j \in 1..Len(layers)}

\* p is a regular file in two layers or more
FileInSeveral(p) ==
  Cardinality({j \in Holders(p) : LayerTree(j)[p].kind = "file"}) >= 2

\* a layer above layer h has a whiteout file for p or for what p is below; the
\* whiteout file named by the prefix alone stands for its whole directory
WhitedOutAbove(p, h) ==
  \E k \in (h + 1)..Len(layers) : \E q \in DOMAIN LayerTree(k) :
    /\ WhiteoutFile(LayerTree(k), q)
    /\ IF q[Len(q)] \in {WHITEOUT_OPAQUE_PREFIX, WHITEOUT_PREFIX}
         THEN IsPrefix(Parent(q), p)
         ELSE IsPrefix(Sibling(q), p)

\* a layer above layer h has a file or a symbolic link where p has a directory
\* on its way
CoveredAbove(p, h) ==
  \E k \in (h + 1)..Len(layers) : \E q \in DOMAIN LayerTree(k) :
    IsPrefix(q, p) /\ LayerTree(k)[q].kind # "dir"

WhiteoutCount(j) ==
  Cardinality({q \in DOMAIN LayerTree(j) : WhiteoutFile(LayerTree(j), q)})

\* the steps tr show layer number j copied and all its whiteout files removed
\* from rootfs after that
LayerDone(tr, j) ==
  \E c \in 1..Len(tr) :
    /\ tr[c] = Event("copied", j, layers[j])
    /\ Cardinality({u \in (c + 1)..Len(tr) : tr[u].ev = "unlink" /\ tr[u].k = j})
         = WhiteoutCount(j)

\* C12: within one Copy provision the layers are applied in the given order,
\* base first, without interleaving: the scan of layer k+1 starts only after
\* the copy of layer k and the removal of its whiteout files have completed,
\* and no step of layer k comes after it.
C12_LayersInOrder ==
  backend = "copy" =>
    \A i \in 1..Len(trace) :
      trace[i].ev = "scan" =>
        LET k == trace[i].k
        IN  /\ k = 1 + Cardinality({h \in 1..(i - 1) : trace[h].ev = "scan"})
            /\ trace[i].path = layers[k]
            /\ k > 1 => LayerDone(SubSeq(trace, 1, i - 1), k - 1)
            /\ \A h \in (i + 1)..Len(trace) : trace[h].k >= k

\* the scan of the third layer has started, the second layer having had a
\* whiteout file to remove
C12_Witness ==
  /\ backend = "copy"
  /\ Len(layers) = 3
  /\ WhiteoutCount(2) > 0
  /\ \E i \in 1..Len(trace) : trace[i] = Event("scan", 3, layers[3])

\* the step of a pending Copy provision did not get through: a scan that did
\* not start cp, or an exit of cp that did not end with the layer copied and
\* its whiteout files removed
StepFailed ==
  /\ backend = "copy"
  /\ result = Pending("provision")
  /\ \/ pc = "layer" /\ trace'[Len(trace')] # Event("cp", idx, layers[idx])
     \/ pc = "cp" /\ ~LayerDone(trace', idx)

\* C13: Copy backend: the first failing step of a provision makes its result
\* a failure, and after it no step of the provision is executed: the next
\* step of the backend is the dispatch of another operation.
C13_FirstFailureAborts ==
  [][/\ StepFailed => (result'.op = "provision" /\ result'.status = "failed" /\ pc' = "idle")
     /\ (backend = "copy" /\ result.op = "provision" /\ result.status = "failed")
          => (pc = "idle" /\ ops' = ops + 1)]_vars

\* a provision of two layers has failed in its first layer after cp was
\* started, and the second layer was not scanned
C13_Witness ==
  /\ backend = "copy"
  /\ result.op = "provision"
  /\ result.status = "failed"
  /\ Len(layers) = 2
  /\ \E i \in 1..Len(trace) : trace[i] = Event("cp", 1, layers[1])
  /\ \A i \in 1..Len(trace) : trace[i].k < 2

\* the failing layer's scan removed the entry at c of rootfs, or one above it
RemovedByScan(c) ==
  \E i \in DOMAIN trace :
    /\ trace[i].ev = "remove"
    /\ trace[i].k = idx
    /\ IsPrefix(SelectSeq(Components(trace[i].path), LAMBDA x : x # DOT), c)

\* a Copy provision has failed after it created rootfs
FailedAfterMkdir ==
  /\ backend = "copy"
  /\ result.op = "provision"
  /\ result.status = "failed"
  /\ trace # <<>>

\* C14: Copy backend: a provision that fails after rootfs was created is not
\* rolled back: when the failure is reported rootfs is still a directory, and
\* every entry the earlier layers and steps put under it is still there,
\* save those the failing layer's own scan removed; and a destroy that then
\* succeeds on that rootfs removes it.
C14_NoRollback ==
  /\ FailedAfterMkdir =>
       /\ IsDir(fs, rootfs)
       /\ \A c \in DOMAIN pre :
            IsPrefix(RootC, c) => (c \in DOMAIN fs \/ RemovedByScan(c))
  /\ (/\ backend = "copy"
      /\ result = Ready("destroy")
      /\ LastDone = <<"provision", "failed">>) => ~Exists(fs, rootfs)

\* the provision failed in its second layer, with entries of the first layer
\* in rootfs
C14_Witness ==
  /\ FailedAfterMkdir
  /\ idx = 2
  /\ \E i \in DOMAIN trace : trace[i].ev = "cp" /\ trace[i].k = 2
  /\ \E c \in DOMAIN pre : Len(c) > Len(RootC) /\ IsPrefix(RootC, c) /\ c \in DOMAIN fs

\* the failed provision's rootfs, destroyed
C14_DestroyedWitness ==
  /\ backend = "copy"
  /\ result = Ready("destroy")
  /\ LastDone = <<"provision", "failed">>
  /\ rootfs = Rootfs

C16_RootfsNonEmpty ==
  CopySucceeded => (IsDir(fs, rootfs) /\ Children(fs, RootC) # {})

\* C16, amended: after a successful Copy provision of a non-empty stack of
\* existing layer directories rootfs exists and is a directory, also when the
\* layers are empty directories or hold only whiteout files; and it is not
\* empty when the top layer holds an entry that is not a whiteout file.
C16_RootfsExists ==
  CopySucceeded =>
    /\ IsDir(fs, rootfs)
    /\ Visible(LayerTree(Len(layers))) # EmptyTree => Children(fs, RootC) # {}

\* a provision of layers that are empty or hold only whiteout files succeeded,
\* and one of a stack whose top layer holds something else
C16_Witness ==
  /\ CopySucceeded
  /\ Len(layers) = 2
  /\ LayerTree(1) = EmptyTree
  /\ LayerTree(2) # EmptyTree
  /\ Visible(LayerTree(2)) = EmptyTree
  /\ Children(fs, RootC) = {}

C16_NonEmptyWitness ==
  /\ CopySucceeded
  /\ Visible(LayerTree(Len(layers))) # EmptyTree
  /\ \A q \in DOMAIN LayerTree(Len(layers)) : LayerTree(Len(layers))[q].kind = "file"
  /\ Children(fs, RootC) # {}

\* backend_dir/scratch/basename(rootfs) for the rootfs and backend directory
\* of the runs
ScratchOf(r) == BackendDir \o <<"/", "s", "c", "r", "a", "t", "c", "h", "/">> \o Basename(r)

\* the commands of a whole destroy of r, in order
DestroyCmds(r) ==
  << [tool |-> "unmount", dir |-> ScratchOf(r), input |-> <<>>, layers |-> <<>>],
     [tool |-> "remove", dir |-> ScratchOf(r), input |-> <<>>, layers |-> <<>>],
     [tool |-> "remove", dir |-> r, input |-> <<>>, layers |-> <<>>] >>

\* the state of the process while the n-th command of destroy runs
DestroyPc(n) == <<"unmount", "remove-scratch", "remove-rootfs">>[n]

\* C17: Windows layer backend: destroy runs wclayer unmount of
\* backend_dir/scratch/basename(rootfs), then wclayer remove of that scratch
\* directory, then wclayer remove of rootfs, in that order, each started at
\* the exit of the one before it; it resolves to true only when all three were
\* run and both removes succeeded (neither directory is left), and it fails
\* when a remove fails.
C17_DestroySequence ==
  [][(backend = "wclayer" /\ result'.op = "destroy") =>
       /\ Len(cmds') \in 1..3
       /\ cmds' = SubSeq(DestroyCmds(rootfs'), 1, Len(cmds'))
       /\ result'.status = "pending" /\ pc' # "defer-true" => pc' = DestroyPc(Len(cmds'))
       /\ (ops' = ops /\ cmds' # cmds) =>
            (/\ Len(cmds') = Len(cmds) + 1
             /\ pc = DestroyPc(Len(cmds))
             /\ pc' = DestroyPc(Len(cmds')))
       /\ result'.status = "ok" =>
            (/\ result'.value
             /\ cmds' = DestroyCmds(rootfs')
             /\ ~Exists(fs', ScratchOf(rootfs'))
             /\ ~Exists(fs', rootfs'))
       /\ (pc = "remove-scratch" /\ pc' # "remove-rootfs") => result'.status = "failed"
       /\ (pc = "remove-rootfs" /\ pc' # "defer-true") => result'.status = "failed"]_vars

\* a destroy of a provisioned rootfs resolved to true
C17_Witness ==
  /\ backend = "wclayer"
  /\ result = Ready("destroy")
  /\ LastDone = <<"provision", "ok">>
  /\ cmds = DestroyCmds(rootfs)

\* a destroy failed at its second remove
C17_FailedWitness ==
  /\ backend = "wclayer"
  /\ result.op = "destroy"
  /\ result.status = "failed"
  /\ Len(cmds) = 3

\* C18: Windows layer backend: destroy is best-effort about unmount: whatever
\* the exit of wclayer unmount, destroy goes on to wclayer remove of the
\* scratch directory (and then of rootfs), and the unmount does not decide its
\* result.
C18_UnmountBestEffort ==
  [][(backend = "wclayer" /\ pc = "unmount") =>
       /\ pc' = "remove-scratch"
       /\ cmds' = Append(cmds, DestroyCmds(rootfs)[2])
       /\ result' = result]_vars

\* the imports a provision has started, in the order of their start
Imports == SelectSeq(cmds, LAMBDA c : c.tool = "import")

\* the numeric directory rootfs/<k>
NumericDir(k) == rootfs \o <<"/">> \o to_string(k)

\* the tarball of layer number k of the stack (1-based)
Tarball(k) == layers[k] \o <<"/", "t", "a", "r">>

\* every import of the provision has been started
ImportsDone ==
  /\ backend = "wclayer"
  /\ result.op = "provision"
  /\ \/ pc \in {"defer-create", "create", "defer-mount", "mount"}
     \/ result.status = "ok"

\* C19: Windows layer backend: provision imports each layer exactly once,
\* layer layers[i] (0-based, base first) from its tarball into rootfs/<i+1>:
\* the base layer into rootfs/1 and the top layer into rootfs/N.
C19_OneImportPerLayer ==
  (backend = "wclayer" /\ result.op = "provision") =>
    /\ Len(Imports) <= Len(layers)
    /\ \A k \in DOMAIN Imports :
         /\ Imports[k].dir = NumericDir(k)
         /\ Imports[k].input = Tarball(k)
    /\ \A c \in {cmds[i] : i \in DOMAIN cmds} :
         c.tool = "import" => Cardinality({i \in DOMAIN cmds : cmds[i].dir = c.dir}) = 1
    /\ ImportsDone => Len(Imports) = Len(layers)

\* a provision of three layers has imported them all
C19_Witness ==
  /\ ImportsDone
  /\ result.status = "ok"
  /\ Len(layers) = 3
  /\ Len(Imports) = 3

\* C20 as stated: the imports run top-down: the k-th import is of the k-th
\* layer from the top, into its numeric directory, and takes as parents the
\* directories of the higher layers, top first; the first takes none.
C20_ImportsTopDown ==
  (backend = "wclayer" /\ result.op = "provision") =>
    \A k \in DOMAIN Imports :
      LET n == Len(layers)
      IN  /\ Imports[k].dir = NumericDir(n + 1 - k)
          /\ Imports[k].input = Tarball(n + 1 - k)
          /\ Imports[k].layers = [j \in 1..(k - 1) |-> NumericDir(n + 1 - j)]

\* C20, amended: the imports run bottom-up, before any other command: the
\* k-th import is of the k-th layer from the base; the first, the base
\* layer's, takes an empty parent list, and each later one takes as parents
\* the directories of the lower layers imported before it, the nearest first,
\* down to the base.
C20_ImportsBottomUp ==
  (backend = "wclayer" /\ result.op = "provision") =>
    /\ \A k \in DOMAIN Imports :
         /\ Imports[k].dir = NumericDir(k)
         /\ Imports[k].input = Tarball(k)
         /\ Imports[k].layers = [j \in 1..(k - 1) |-> NumericDir(k - j)]
    /\ \A i \in DOMAIN cmds : cmds[i].tool = "import" => \A j \in 1..i : cmds[j].tool = "import"

\* the third import of a three-layer stack has been started
C20_Witness ==
  /\ backend = "wclayer"
  /\ result = Pending("provision")
  /\ pc = "import"
  /\ Len(layers) = 3
  /\ Len(Imports) = 3
  /\ Imports[3].layers = <<NumericDir(2), NumericDir(1)>>

\* a wclayer command as the operating system sees it
Wclayer(tool, dir, input, ls) == [tool |-> tool, dir |-> dir, input |-> input, layers |-> ls]

\* a Windows layer provision of a stack [base, app] of two different layers
\* has succeeded
TwoProvisioned ==
  /\ backend = "wclayer"
  /\ result = Ready("provision")
  /\ Len(layers) = 2
  /\ layers[1] # layers[2]

\* C21 as stated: provision of [base, app] imports the top layer app into
\* rootfs/1 and the base layer into rootfs/2, then creates the scratch layer
\* at backend_dir/scratch/basename(rootfs), then mounts it.
C21_AppIntoOne ==
  TwoProvisioned =>
    /\ Len(cmds) = 4
    /\ {<<cmds[i].input, cmds[i].dir>> : i \in 1..2} =
         {<<Tarball(2), NumericDir(1)>>, <<Tarball(1), NumericDir(2)>>}
    /\ cmds[3].tool = "create" /\ cmds[3].dir = ScratchOf(rootfs)
    /\ cmds[4].tool = "mount" /\ cmds[4].dir = ScratchOf(rootfs)

\* C21, amended: provision of [base, app] imports the base layer into
\* rootfs/1 and the top layer app into rootfs/2, then creates the scratch
\* layer at backend_dir/scratch/basename(rootfs), then mounts it.
C21_BaseIntoOne ==
  TwoProvisioned =>
    cmds = << Wclayer("import", NumericDir(1), Tarball(1), <<>>),
              Wclayer("import", NumericDir(2), Tarball(2), <<NumericDir(1)>>),
              Wclayer("create", ScratchOf(rootfs), <<>>, <<NumericDir(2), NumericDir(1)>>),
              Wclayer("mount", ScratchOf(rootfs), <<>>, <<NumericDir(2), NumericDir(1)>>) >>

\* the provision of [/a, /b] into a fresh rootfs has succeeded
C21_Witness ==
  /\ TwoProvisioned
  /\ layers = <<LayerA, LayerB>>
  /\ IsDir(fs, NumericDir(1))
  /\ IsDir(fs, NumericDir(2))

\* the commands of an operation that act on a scratch directory
ScratchCmds(cs, r) ==
  {cs[i] : i \in {k \in DOMAIN cs : /\ cs[k].tool \in {"create", "mount", "unmount", "remove"}
                                      /\ cs[k].dir # r}}

\* C22: Windows layer backend: the scratch directories of two distinct rootfs
\* paths provisioned with the same backend_dir are different, also when the
\* paths have equal basenames under different parents: an operation on one
\* rootfs starts no create, mount, unmount or remove on a scratch directory
\* that the operation before it, on another rootfs, acted on.
C22_ScratchDisjoint ==
  [][(backend = "wclayer" /\ ops' = ops + 1 /\ result.op # "none" /\ rootfs' # rootfs) =>
       \A c \in ScratchCmds(cmds, rootfs), d \in ScratchCmds(cmds', rootfs') : c.dir # d.dir]_vars

\* a Windows layer provision is in progress or was the last operation
WclProvisioning == backend = "wclayer" /\ result.op = "provision"

\* the n-th command the operation started has exited with success
Succeeded(n) == n \in DOMAIN trace /\ trace[n].ev = "exit-0" /\ trace[n].k = n

\* C23: Windows layer backend: a provision runs its wclayer steps one at a
\* time in the order import, ..., import, create, mount: at most one of its
\* commands has been started and has not exited, the k-th command is the
\* import of the k-th layer for k <= N, the create for k = N + 1 and the mount
\* for k = N + 2, and each command but the first was started only after the
\* one before it had exited with success.
C23_OneStepAtATime ==
  WclProvisioning =>
    /\ Len(cmds) - Len(trace) \in {0, 1}
    /\ Len(cmds) <= Len(layers) + 2
    /\ \A k \in DOMAIN cmds :
         /\ cmds[k].tool = IF k <= Len(layers) THEN "import"
                            ELSE IF k = Len(layers) + 1 THEN "create" ELSE "mount"
         /\ k > 1 => Succeeded(k - 1)

\* the mount of a three-layer stack runs
C23_Witness ==
  /\ WclProvisioning
  /\ Len(layers) = 3
  /\ pc = "mount"
  /\ Len(cmds) = 5
  /\ Len(trace) = 4

\* the list runs from a higher layer's directory down to the base layer's,
\* rootfs/1, without a gap
HigherToBase(ls) == ls = [j \in 1..Len(ls) |-> NumericDir(Len(ls) + 1 - j)]

\* C24: Windows layer backend: in every wclayer command of a provision that
\* takes a layer list the directories are ordered from higher layer to lower
\* layer and the base layer's directory is the last element; create and mount
\* get the same list, of all N layer directories; and every directory in an
\* import's parent list is one whose import has exited with success.
C24_BaseLast ==
  WclProvisioning =>
    \A k \in DOMAIN cmds :
      /\ HigherToBase(cmds[k].layers)
      /\ cmds[k].layers # <<>> => cmds[k].layers[Len(cmds[k].layers)] = NumericDir(1)
      /\ cmds[k].tool \in {"create", "mount"} =>
           (/\ Len(cmds[k].layers) = Len(layers)
            /\ \A m \in DOMAIN cmds :
                 cmds[m].tool \in {"create", "mount"} => cmds[m].layers = cmds[k].layers)
      /\ cmds[k].tool = "import" =>
           \A j \in DOMAIN cmds[k].layers :
             \E m \in 1..(k - 1) :
               /\ cmds[m].tool = "import"
               /\ cmds[m].dir = cmds[k].layers[j]
               /\ Succeeded(m)

\* the provision of a three-layer stack has succeeded
C24_Witness ==
  /\ WclProvisioning
  /\ result.status = "ok"
  /\ Len(layers) = 3
  /\ cmds[3].layers = <<NumericDir(2), NumericDir(1)>>
  /\ cmds[5].layers = <<NumericDir(3), NumericDir(2), NumericDir(1)>>

\* a command of the operation has exited with a failure
SomeExitFailed == \E n \in DOMAIN trace : trace[n].ev = "exit-failed"

\* C25: Windows layer backend: when a step of a provision fails (the mkdir of
\* rootfs, an import, the create or the mount) the provision fails and no
\* later step is started; the provision succeeds only when the mount has
\* exited with success.
C25_FirstFailureAborts ==
  [][(backend = "wclayer" /\ result'.op = "provision") =>
       /\ (ProvisionStep /\ layers' # <<>> /\ ~Exists(fs', rootfs')) =>
            (result'.status = "failed" /\ cmds' = <<>> /\ pc' = "idle")
       /\ (ProvisionStep /\ result'.status = "failed") => (cmds' = <<>> /\ pc' = "idle")
       /\ SomeExitFailed' =>
            (/\ result'.status = "failed"
             /\ pc' = "idle"
             /\ Len(cmds') = Len(trace')
             /\ \A n \in DOMAIN trace' : trace'[n].ev = "exit-failed" => n = Len(trace'))
       /\ (result.op = "provision" /\ result.status = "failed") => ops' = ops + 1
       /\ result'.status = "ok" =>
            (/\ cmds'[Len(cmds')].tool = "mount"
             /\ Len(trace') = Len(cmds')
             /\ \A n \in DOMAIN trace' : trace'[n].ev = "exit-0")]_vars

\* the provision failed at its create, after both imports
C25_Witness ==
  /\ WclProvisioning
  /\ result.status = "failed"
  /\ Len(layers) = 2
  /\ Len(cmds) = 3
  /\ cmds[3].tool = "create"
  /\ trace[3].ev = "exit-failed"

\* the step is a copy of the layer that fails: cp is not started, or it exits
\* with another status than 0, or is not reaped
CopyFails ==
  /\ backend = "copy"
  /\ result = Pending("provision")
  /\ \/ pc = "layer" /\ result'.error = "Failed to create 'cp' subprocess"
     \/ pc = "cp" /\ \A i \in DOMAIN trace' : trace'[i] # Event("copied", idx, layers[idx])

\* the phases of every layer are in order in the steps tr: the removals of a
\* layer come before the start of its cp, and the removals of its whiteout
\* files after cp has exited with status 0
PhasesInOrder(tr) ==
  \A i \in DOMAIN tr :
    /\ tr[i].ev = "remove" =>
         /\ \E h \in 1..(i - 1) : tr[h].ev = "scan" /\ tr[h].k = tr[i].k
         /\ \A h \in 1..(i - 1) : tr[h].ev = "cp" => tr[h].k < tr[i].k
    /\ tr[i].ev = "copied" => \E h \in 1..(i - 1) : tr[h].ev = "cp" /\ tr[h].k = tr[i].k
    /\ tr[i].ev = "unlink" => \E h \in 1..(i - 1) : tr[h].ev = "copied" /\ tr[h].k = tr[i].k

\* a failed copy removes nothing: the step leaves every entry there was
NothingRemoved == \A c \in DOMAIN fs : c \in DOMAIN fs'

\* C26 as stated: Copy backend, within one layer: every removal before the
\* copy happens before cp is started, the whiteout files are removed only
\* after cp exited with status 0, and when the copy fails (spawn error,
\* unreaped, non-zero exit) no whiteout file is removed and the result is a
\* failure that carries the captured stderr of cp.
C26_PhasesAndStderr ==
  [][backend = "copy" =>
       /\ PhasesInOrder(trace')
       /\ CopyFails =>
            (/\ result'.status = "failed"
             /\ pc = "cp" => NothingRemoved
             /\ result'.error = CopyError(CpStderr))]_vars

\* C26, amended: as stated, but the failure carries the captured stderr of cp
\* only when cp exited with a non-zero status; when cp could not be started
\* it carries the spawn error, and when cp was not reaped a fixed message.
C26_PhasesInOrder ==
  [][backend = "copy" =>
       /\ PhasesInOrder(trace')
       /\ CopyFails =>
            (/\ result'.status = "failed"
             /\ pc' = "idle"
             /\ pc = "cp" => NothingRemoved
             /\ trace'[Len(trace')].ev # "unlink"
             /\ result'.error \in
                  IF pc = "layer" THEN {"Failed to create 'cp' subprocess"}
                  ELSE {CopyError(CpStderr), "Failed to reap subprocess to copy image"})]_vars

\* cp failed, having copied a whiteout file of the layer into rootfs, and the
\* file is still there
C26_Witness ==
  /\ backend = "copy"
  /\ result = Failure("provision", CopyError(CpStderr))
  /\ \E i \in DOMAIN trace : trace[i].ev = "remove" /\ trace[i].k = idx
  /\ \E c \in DOMAIN fs :
       /\ IsPrefix(RootC, c)
       /\ fs[c].kind = "file"
       /\ StartsWith(c[Len(c)], WHITEOUT_PREFIX)

\* the scan of the layer about to be scanned, in walk order, before its i-th
\* entry, with no fault of the file system
ScanBefore(order, i) ==
  ScanFrom([ok |-> TRUE, fs |-> fs, whiteouts |-> <<>>, log |-> <<>>, error |-> ""],
           rootfs, layers[idx], fs, SubSeq(order, 1, i - 1), 1, idx, NoFault)

\* the same scan after its i-th entry
ScanAfter(order, i) ==
  ScanEntry(ScanBefore(order, i), rootfs, layers[idx], fs, order[i], i, idx, NoFault)

\* the path of the i-th entry relative to the layer, as the code computes it
LayerPathOf(order, i) ==
  Substr(FtsPath(fs, layers[idx], order[i]), Len(layers[idx]) + 1)

\* the i-th entry of the walk is a whiteout file
IsMarker(order, i) ==
  /\ fs[order[i]].kind = "file"
  /\ StartsWith(order[i][Len(order[i])], WHITEOUT_PREFIX)

\* the i-th entry is a whiteout file whose target is not in rootfs when the
\* scan comes to it
MarkerWithoutTarget(order, i) ==
  /\ ScanBefore(order, i).ok
  /\ IsMarker(order, i)
  /\ ~Exists(ScanBefore(order, i).fs,
             WhiteoutTarget(rootfs, LayerPathOf(order, i), order[i][Len(order[i])]))

\* a layer of a Copy provision is about to be scanned
AboutToScan == backend = "copy" /\ pc = "layer" /\ IsDir(fs, layers[idx])

\* no whiteout file of layer j is in rootfs
MarkersDeleted(j) ==
  \A q \in DOMAIN LayerTree(j) :
    WhiteoutFile(LayerTree(j), q) => RootC \o q \notin DOMAIN fs

\* C27 as stated: Copy backend: a whiteout file whose target does not exist
\* in rootfs when the scan comes to it (never present, or removed with an
\* ancestor earlier in the same scan) causes no removal and no error, and the
\* whiteout file itself is deleted from rootfs after the copy.
C27_AbsentTarget ==
  /\ AboutToScan =>
       \A order \in Walks(fs, layers[idx]) : \A i \in DOMAIN order :
         MarkerWithoutTarget(order, i) =>
           /\ ScanAfter(order, i).ok
           /\ ScanAfter(order, i).fs = ScanBefore(order, i).fs
           /\ ScanAfter(order, i).whiteouts =
                Append(ScanBefore(order, i).whiteouts, Join(rootfs, LayerPathOf(order, i)))
  /\ \A j \in 1..Len(layers) : JustApplied(j) => MarkersDeleted(j)

\* rootfs holds a directory or a symlink at the path of the i-th entry itself
\* when the scan comes to it
Overwrites(order, i) ==
  LET f == ScanBefore(order, i).fs
      p == Join(rootfs, LayerPathOf(order, i))
  IN  Exists(f, p) /\ (IsDir(f, p) \/ IsLink(f, p))

\* C27, amended: as stated, unless rootfs holds a directory or a symlink at
\* the whiteout file's own path, which is then removed as any entry replaced
\* by one of another kind is; nothing else is removed.
C27_AbsentTargetNoRemoval ==
  /\ AboutToScan =>
       \A order \in Walks(fs, layers[idx]) : \A i \in DOMAIN order :
         MarkerWithoutTarget(order, i) =>
           /\ ScanAfter(order, i).whiteouts =
                Append(ScanBefore(order, i).whiteouts, Join(rootfs, LayerPathOf(order, i)))
           /\ IF Overwrites(order, i)
                THEN \A c \in DOMAIN ScanBefore(order, i).fs :
                       c \in DOMAIN ScanAfter(order, i).fs
                         \/ IsPrefix(Lookup(ScanBefore(order, i).fs,
                                            Join(rootfs, LayerPathOf(order, i)), FALSE).path, c)
                ELSE /\ ScanAfter(order, i).ok
                     /\ ScanAfter(order, i).fs = ScanBefore(order, i).fs
  /\ \A j \in 1..Len(layers) : JustApplied(j) => MarkersDeleted(j)

\* the scan of a second layer comes to a whiteout file whose target is not in
\* rootfs, and neither is anything at the file's own path
C27_Witness ==
  /\ AboutToScan
  /\ idx = 2
  /\ \E order \in Walks(fs, layers[idx]) : \E i \in DOMAIN order :
       /\ MarkerWithoutTarget(order, i)
       /\ ~Exists(ScanBefore(order, i).fs, Join(rootfs, LayerPathOf(order, i)))

\* the scan comes to a whiteout file whose target was in rootfs when the scan
\* began and has been removed with its directory since
C27_AncestorWitness ==
  /\ AboutToScan
  /\ \E order \in Walks(fs, layers[idx]) : \E i \in DOMAIN order :
       /\ MarkerWithoutTarget(order, i)
       /\ ~Overwrites(order, i)
       /\ Exists(fs, WhiteoutTarget(rootfs, LayerPathOf(order, i), order[i][Len(order[i])]))

\* a layer with a whiteout file whose target was never in rootfs has been
\* applied
C27_AppliedWitness ==
  /\ JustApplied(1)
  /\ WhiteoutCount(1) > 0
  /\ MarkersDeleted(1)

\* the canonical path of the sibling that the i-th entry, a whiteout file
\* d/.wh.n, names: rootfs/d/n
SiblingOf(order, i) ==
  LET rel == Components(LayerPathOf(order, i))
      name == order[i][Len(order[i])]
  IN  RootC \o Parent(rel) \o <<Substr(name, Len(WHITEOUT_PREFIX))>>

\* the i-th entry is a whiteout file other than the opaque one, and rootfs
\* holds no directory or symlink at the path of the file itself
PlainMarker(order, i) ==
  /\ ScanBefore(order, i).ok
  /\ IsMarker(order, i)
  /\ order[i][Len(order[i])] # WHITEOUT_OPAQUE_PREFIX
  /\ ~Overwrites(order, i)

\* C28: Copy backend: a whiteout file d/.wh.n that is not the opaque one
\* removes from rootfs at most the sibling d/n (with what is below it); every
\* other entry of rootfs/d and rootfs/d itself stay, for every name that
\* begins with ".wh.", the name ".wh." with nothing after it included.
C28_SingleSibling ==
  AboutToScan =>
    \A order \in Walks(fs, layers[idx]) : \A i \in DOMAIN order :
      PlainMarker(order, i) =>
        \A c \in DOMAIN ScanBefore(order, i).fs :
          c \in DOMAIN ScanAfter(order, i).fs \/ IsPrefix(SiblingOf(order, i), c)

\* C28 for whiteout files with a name after the prefix
C28_NamedSibling ==
  AboutToScan =>
    \A order \in Walks(fs, layers[idx]) : \A i \in DOMAIN order :
      (PlainMarker(order, i) /\ order[i][Len(order[i])] # WHITEOUT_PREFIX) =>
        \A c \in DOMAIN ScanBefore(order, i).fs :
          c \in DOMAIN ScanAfter(order, i).fs \/ IsPrefix(SiblingOf(order, i), c)

\* the target of the i-th entry, a whiteout file, as the code computes it
TargetOf(order, i) ==
  WhiteoutTarget(rootfs, LayerPathOf(order, i), order[i][Len(order[i])])

\* C29: Copy backend: the target of every whiteout file of a layer is removed
\* before the layer is copied, also when rootfs holds a directory or a symlink
\* at the path of the whiteout file itself: then both the target and that
\* entry are gone.
C29_TargetAndEntryRemoved ==
  AboutToScan =>
    \A order \in Walks(fs, layers[idx]) : \A i \in DOMAIN order :
      (ScanBefore(order, i).ok /\ IsMarker(order, i) /\ ScanAfter(order, i).ok) =>
        /\ ~Exists(ScanAfter(order, i).fs, TargetOf(order, i))
        /\ Overwrites(order, i) =>
             ~Exists(ScanAfter(order, i).fs, Join(rootfs, LayerPathOf(order, i)))

\* C29 for whiteout files at whose own path rootfs holds no directory or
\* symlink
C29_TargetRemoved ==
  AboutToScan =>
    \A order \in Walks(fs, layers[idx]) : \A i \in DOMAIN order :
      (ScanBefore(order, i).ok /\ IsMarker(order, i) /\ ScanAfter(order, i).ok
         /\ ~Overwrites(order, i)) =>
        ~Exists(ScanAfter(order, i).fs, TargetOf(order, i))

\* the entry at the path of a whiteout file is removed, whatever becomes of
\* the target
C29_EntryRemoved ==
  AboutToScan =>
    \A order \in Walks(fs, layers[idx]) : \A i \in DOMAIN order :
      (ScanBefore(order, i).ok /\ IsMarker(order, i) /\ ScanAfter(order, i).ok
         /\ Overwrites(order, i)) =>
        ~Exists(ScanAfter(order, i).fs, Join(rootfs, LayerPathOf(order, i)))

\* the i-th entry is the opaque whiteout file directly in the layer directory
RootOpaque(order, i) ==
  /\ ScanBefore(order, i).ok
  /\ IsMarker(order, i)
  /\ order[i][Len(order[i])] = WHITEOUT_OPAQUE_PREFIX
  /\ Len(Components(LayerPathOf(order, i))) = 1

\* layer number j has the opaque whiteout file directly in its directory
HasRootOpaque(j) ==
  /\ <<WHITEOUT_OPAQUE_PREFIX>> \in DOMAIN LayerTree(j)
  /\ LayerTree(j)[<<WHITEOUT_OPAQUE_PREFIX>>].kind = "file"

\* C30: Copy backend: the opaque whiteout file directly in a layer directory
\* wipes what lower layers put into rootfs and the provision goes on: the
\* scan does not fail at that entry, and when the layer has been applied
\* rootfs exists and holds exactly the layer's own entries without the
\* whiteout file.
C30_RootOpaqueWipes ==
  /\ AboutToScan =>
       \A order \in Walks(fs, layers[idx]) : \A i \in DOMAIN order :
         RootOpaque(order, i) =>
           /\ ScanAfter(order, i).ok
           /\ \A c \in DOMAIN ScanAfter(order, i).fs : ~(IsPrefix(RootC, c) /\ c # RootC)
  /\ \A j \in 1..Len(layers) :
       (JustApplied(j) /\ HasRootOpaque(j)) =>
         /\ IsDir(fs, rootfs)
         /\ TreeAt(fs, RootC) = Visible(LayerTree(j))

\* what lower layers put into rootfs is gone after the opaque whiteout file
\* directly in the layer directory, whether or not the scan goes on
C30_RootOpaqueEmpties ==
  AboutToScan =>
    \A order \in Walks(fs, layers[idx]) : \A i \in DOMAIN order :
      RootOpaque(order, i) =>
        \A c \in DOMAIN ScanAfter(order, i).fs : ~(IsPrefix(RootC, c) /\ c # RootC)

\* a provision has failed in the scan of a layer with the opaque whiteout
\* file directly in its directory, on removing rootfs itself
C30_FailedWitness ==
  /\ backend = "copy"
  /\ pc = "idle"
  /\ result.op = "provision"
  /\ result.status = "failed"
  /\ idx = 2
  /\ HasRootOpaque(idx)
  /\ trace # <<>>
  /\ trace[Len(trace)].ev = "remove"

\* the entries of a walk of the layer being scanned, by their components
\* below the layer
RelOrder(order) ==
  [i \in DOMAIN order |->
     SubSeq(order[i], Len(Lookup(fs, layers[idx], FALSE).path) + 1, Len(order[i]))]

\* no entry of the layer being scanned is a symbolic link
NoLinksInLayer ==
  \A q \in DOMAIN LayerTree(idx) : LayerTree(idx)[q].kind # "link"

\* C31: Copy backend: for every rootfs and every layer without symbolic
\* links, walked in the same order, the removals done while walking (POSIX)
\* and the removals queued while walking and done afterwards (Windows) succeed
\* or fail alike and, when they succeed, leave the same file system before
\* the copy.
C31_SameScan ==
  (AboutToScan /\ NoLinksInLayer) =>
    \A order \in Walks(fs, layers[idx]) :
      LET inline == Scan(fs, rootfs, layers[idx], order, idx, NoFault)
          queued == QueuedScan(fs, rootfs, layers[idx], RelOrder(order))
      IN  /\ RelOrder(order) \in Traversals(fs, layers[idx])
          /\ inline.ok = queued.ok
          /\ inline.ok => inline.fs = queued.fs

\* where the two scans differ, the queued one removes less: what it leaves
\* holds all that the inline one leaves
C31_QueuedRemovesLess ==
  (AboutToScan /\ NoLinksInLayer) =>
    \A order \in Walks(fs, layers[idx]) :
      LET inline == Scan(fs, rootfs, layers[idx], order, idx, NoFault)
          queued == QueuedScan(fs, rootfs, layers[idx], RelOrder(order))
      IN  (inline.ok /\ queued.ok) => DOMAIN inline.fs \subseteq DOMAIN queued.fs

\* the path strings of a sequence are all different
NoRepeats(ws) == \A i, j \in DOMAIN ws : ws[i] = ws[j] => i = j

\* the path string names, without following a link, a regular file whose
\* name begins with the whiteout prefix
IsWhiteoutFileAt(f, s) ==
  LET r == Lookup(f, s, FALSE)
  IN  /\ r.ok
      /\ r.path # <<>>
      /\ f[r.path].kind = "file"
      /\ StartsWith(r.path[Len(r.path)], WHITEOUT_PREFIX)

\* C32: Copy backend: when the copy of a layer has succeeded, every path in
\* the layer's whiteout list names a whiteout file in rootfs and is in the
\* list once, so that the removal of the whiteout files after the copy does
\* not fail for a missing file.
C32_WhiteoutsLanded ==
  (backend = "copy" /\ pc = "cp") =>
    /\ NoRepeats(whiteouts)
    /\ \A order \in Walks(fs, layers[idx]) :
         LET cp == Cp(fs, rootfs, layers[idx], order, Len(order))
         IN  cp.failed = {} =>
               /\ \A i \in DOMAIN whiteouts :
                    /\ IsWhiteoutFileAt(cp.fs, whiteouts[i])
                    /\ IsPrefix(RootC, Lookup(cp.fs, whiteouts[i], FALSE).path)
               /\ RemoveWhiteouts([ok |-> TRUE, fs |-> cp.fs, log |-> <<>>],
                                  whiteouts, 1, 0).ok

\* the copy of a layer with two whiteout files is running and can succeed
C32_Witness ==
  /\ backend = "copy"
  /\ pc = "cp"
  /\ Len(whiteouts) = 2
  /\ \E order \in Walks(fs, layers[idx]) :
       Cp(fs, rootfs, layers[idx], order, Len(order)).failed = {}

\* what the handlers leave in rootfs after a successful provision is what
\* Provisioned computes from the file system without rootfs
ProvisionedAsComputed ==
  (CopySucceeded /\ ops = 1) =>
    \E os \in WalkChoices(fs, layers) :
      LET p == Provisioned(RmRf(fs, rootfs), layers, rootfs, os)
      IN  p.ok /\ p.fs = fs

\* the contents of directory r of f
Contents(f, r) == TreeAt(f, Components(r))

\* the same, whatever the order in which the layers' directories are read the
\* second time
C33_AnyOrderSameContents ==
  (CopySucceeded /\ ops = 1 /\ rootfs = Rootfs) =>
    \A os \in WalkChoices(fs, layers) :
      LET again == Provisioned(fs, layers, OtherRootfs, os)
      IN  /\ again.ok
          /\ Contents(again.fs, OtherRootfs) = Contents(fs, Rootfs)

Reversed(ls) == <<ls[2], ls[1]>>

HasUpMarker(f, ls) ==
  \E j \in DOMAIN ls : \E q \in DOMAIN Contents(f, ls[j]) :
    /\ f[Components(ls[j]) \o q].kind = "file"
    /\ q[Len(q)] = WHITEOUT_PREFIX \o DOTDOT

\* both instances have provisioned, each its own rootfs, their operations in
\* flight at the same time
BothProvisioned ==
  /\ backend = "copy"
  /\ pc = "idle"
  /\ other.pc = "idle"
  /\ result = Ready("provision")
  /\ other.result = Ready("provision")
  /\ rootfs # other.rootfs

\* the contents that provision(ls, r) run alone can leave in r, on the file
\* system f0 that has neither rootfs
AloneContents(f0, ls, r) ==
  {Contents(Provisioned(f0, ls, r, os).fs, r) :
     os \in {o \in WalkChoices(f0, ls) : Provisioned(f0, ls, r, o).ok}}

\* the layer directories are the same in two file systems
SameLayers(f, g) ==
  \A l \in {LayerA, LayerB} :
    Exists(f, l) = Exists(g, l) /\ Contents(f, l) = Contents(g, l)

\* C34: Copy backend: two provisions on distinct rootfs paths whose steps
\* interleave leave in each rootfs what the provision run alone leaves there,
\* and no step of a provision changes a layer directory.
C34_NoInterference ==
  /\ [][backend = "copy" => SameLayers(fs, fs')]_vars
  /\ [](BothProvisioned =>
          LET f0 == RmRf(RmRf(fs, rootfs), other.rootfs)
          IN  /\ Contents(fs, rootfs) \in AloneContents(f0, layers, rootfs)
              /\ Contents(fs, other.rootfs)
                   \in AloneContents(f0, other.layers, other.rootfs))

\* C34 for layers without a whiteout file named `.wh...`
C34_NoInterferenceUnlessUp ==
  /\ [][(backend = "copy" /\ ~HasUpMarker(fs, <<LayerA, LayerB>>))
          => SameLayers(fs, fs')]_vars
  /\ [](BothProvisioned =>
          LET f0 == RmRf(RmRf(fs, rootfs), other.rootfs)
          IN  \/ HasUpMarker(f0, <<LayerA, LayerB>>)
              \/ /\ Contents(fs, rootfs) \in AloneContents(f0, layers, rootfs)
                 /\ Contents(fs, other.rootfs)
                      \in AloneContents(f0, other.layers, other.rootfs))

\* two provisions of two layers each, every one into its own rootfs, have
\* succeeded after both were in flight together
C34_Witness ==
  /\ BothProvisioned
  /\ Len(layers) = 2
  /\ Len(other.layers) = 2
  /\ layers[2] = LayerB

\* the cp of either provision is running at the same time
C34_BothCopying ==
  /\ backend = "copy"
  /\ pc = "cp"
  /\ other.pc = "cp"
  /\ rootfs # other.rootfs

\* the canonical path c is outside rootfs and differs between f and g
ChangedOutside(f, g, r, c) ==
  /\ ~IsPrefix(Components(r), c)
  /\ \/ (c \in DOMAIN f) # (c \in DOMAIN g)
     \/ c \in DOMAIN f /\ c \in DOMAIN g /\ f[c] # g[c]

\* C35: Copy backend: no step of a provision removes or changes anything
\* outside rootfs, whatever the layers hold.
C35_NothingOutside ==
  [][(backend = "copy" /\ result'.op = "provision") =>
       \A c \in DOMAIN fs \cup DOMAIN fs' : ~ChangedOutside(fs, fs', rootfs', c)]_vars

\* C35 for stacks without a whiteout file named `.wh...`
C35_NothingOutsideUnlessUp ==
  [][(backend = "copy" /\ result'.op = "provision" /\ ~HasUpMarker(fs, layers')) =>
       \A c \in DOMAIN fs \cup DOMAIN fs' : ~ChangedOutside(fs, fs', rootfs', c)]_vars

\* C14 for stacks without a whiteout file named `.wh...`
C14_NoRollbackUnlessUp ==
  (FailedAfterMkdir /\ ~HasUpMarker(pre, layers)) =>
    /\ IsDir(fs, rootfs)
    /\ \A c \in DOMAIN pre :
         IsPrefix(RootC, c) => (c \in DOMAIN fs \/ RemovedByScan(c))

\* the step dispatches a provision of a non-empty layer list
ProvisionDispatched ==
  /\ backend = "copy"
  /\ ops' = ops + 1
  /\ result'.op = "provision"
  /\ Len(layers') > 0

\* the step is the exit of the rm of a destroy on r that succeeds
DestroySucceeds(r) ==
  /\ pc = "rm"
  /\ rootfs = r
  /\ result' = Ready("destroy")

\* C36: Copy backend: a provision dispatched on r while r exists is refused as
\* already provisioned and changes nothing, and r, once it exists, ceases to
\* exist only by a destroy on r that succeeds; so from the provision attempt
\* that created r until such a destroy every provision on r is refused.
C36_RefusedUntilDestroyed ==
  /\ [][(ProvisionDispatched /\ Exists(fs, rootfs')) =>
          /\ result' = Failure("provision", "Rootfs is already provisioned")
          /\ fs' = fs]_vars
  /\ [][backend = "copy" =>
          \A r \in targets :
            (Exists(fs, r) /\ ~Exists(fs', r)) => DestroySucceeds(r)]_vars

\* C36 for layers without a whiteout file named `.wh...`
C36_RefusedUntilDestroyedUnlessUp ==
  /\ [][(ProvisionDispatched /\ Exists(fs, rootfs')) =>
          /\ result' = Failure("provision", "Rootfs is already provisioned")
          /\ fs' = fs]_vars
  /\ [][(backend = "copy" /\ ~HasUpMarker(fs, <<LayerA, LayerB>>)) =>
          \A r \in targets :
            (Exists(fs, r) /\ ~Exists(fs', r)) => DestroySucceeds(r)]_vars

\* a provision on r has been refused while r existed, a destroy on r has
\* succeeded after it, and a new provision on r has succeeded
C36_ProvisionedAgain ==
  /\ backend = "copy"
  /\ Len(done) = 2
  /\ done[1] = <<"provision", "failed">>
  /\ done[2] = <<"destroy", "ok">>
  /\ result = Ready("provision")
  /\ Len(layers) > 0
  /\ IsDir(fs, rootfs)

\* C37: whenever the future an operation returned is pending, it is completed
\* later, ready or failed, provided every child exits and every continuation
\* that is ready is run.
C37_EventuallyCompletes ==
  (result.status = "pending") ~> (result.status # "pending")

\* a provision has failed in a middle step: at its second layer on the Copy
\* backend, at the create or the mount on the Windows layer backend
C37_Witness ==
  /\ result.op = "provision"
  /\ result.status = "failed"
  /\ pc = "idle"
  /\ \/ backend = "copy" /\ idx = 2 /\ Len(layers) = 2
     \/ /\ backend = "wclayer"
        /\ Len(cmds) > 0
        /\ cmds[Len(cmds)].tool \in {"create", "mount"}

\* the calls of os::mkdtemp made so far
TempCalls == IF arg.fn = "mkdtemp" /\ ret # NoReturn THEN ret.calls ELSE <<>>

\* C38: os::mkdtemp (Windows): the path a successful call returns did not
\* exist when the call began, and no two successful calls return the same
\* path.
C38_NewlyCreated ==
  \A k \in DOMAIN TempCalls :
    TempCalls[k].ok =>
      /\ ~Exists(TempCalls[k].before, TempCalls[k].value)
      /\ \A j \in 1..(k - 1) : TempCalls[j].ok => TempCalls[j].value # TempCalls[k].value

\* what does hold of os::mkdtemp: the path a successful call returns exists
\* after the call, and it is a directory if it did not exist before; a failed
\* call changes nothing
C38_ExistsAfterwards ==
  \A k \in DOMAIN TempCalls :
    LET after == IF k = Len(TempCalls) THEN fs ELSE TempCalls[k + 1].before
    IN  IF TempCalls[k].ok
          THEN /\ Exists(after, TempCalls[k].value)
               /\ ~Exists(TempCalls[k].before, TempCalls[k].value)
                    => IsDir(after, TempCalls[k].value)
          ELSE after = TempCalls[k].before

\* two calls with the same template have succeeded and returned one path
C38_SamePathTwice ==
  /\ Len(TempCalls) = 2
  /\ TempCalls[1].ok
  /\ TempCalls[2].ok
  /\ TempCalls[1].value = TempCalls[2].value

\* a call has succeeded and returned the path of a file that was there
C38_ReturnedAFile ==
  /\ Len(TempCalls) > 0
  /\ TempCalls[1].ok
  /\ Exists(TempCalls[1].before, TempCalls[1].value)
  /\ ~IsDir(fs, TempCalls[1].value)

\* the string without its trailing separators
RECURSIVE StripTrailing(_)
StripTrailing(v) ==
  IF v = <<>> \/ v[Len(v)] # SEP THEN v ELSE StripTrailing(SubSeq(v, 1, Len(v) - 1))

\* the dirname of the path v by the cases of its description
DirnameByCases(v) ==
  LET t == StripTrailing(v)
      seps == {i \in 1..Len(t) : t[i] = SEP}
  IN  IF v = <<>> THEN <<".">>
      ELSE IF t = <<>> THEN <<SEP>>
      ELSE IF seps = {} THEN <<".">>
      ELSE LET last == CHOOSE i \in seps : \A j \in seps : j <= i
               before == StripTrailing(SubSeq(t, 1, last - 1))
           IN  IF before = <<>> THEN <<SEP>> ELSE before

\* C39: basic_path::dirname returns `.` for the empty path and for a path
\* that, its trailing separators ignored, has no separator; the separator for
\* a path of separators only or with separators only in front; and otherwise
\* what is before the last run of separators; the result ends in a separator
\* only when it is the separator.
C39_DirnameByCases ==
  (arg.fn = "dirname" /\ ret.at = "returned") =>
    /\ ret.value = DirnameByCases(arg.path)
    /\ ret.value # <<>>
    /\ ret.value # <<SEP>> => ret.value[Len(ret.value)] # SEP

\* dirname has been applied to a path with a doubled separator in the middle
\* and has returned what is before the doubled separator
C39_Witness ==
  /\ arg.fn = "dirname"
  /\ arg.path = <<SEP, "u", SEP, SEP, "u">>
  /\ ret.at = "returned"
  /\ ret.value = <<SEP, "u">>

\* dirname of a path with a trailing separator has been taken
C39_TrailingWitness ==
  /\ arg.fn = "dirname"
  /\ arg.path = <<SEP, "u", SEP>>
  /\ ret.at = "returned"
  /\ ret.value = <<SEP>>

\* C40: strings::remove terminates: its loop never meets an occurrence whose
\* erasure leaves the string as it is, so that every iteration shortens the
\* string and there are at most as many as the string has characters; and
\* in mode ANY the result holds no occurrence of a non-empty substring.
C40_Terminates ==
  (arg.fn = "remove") =>
    /\ (ret.at = "loop") =>
         /\ ret.iterations <= Len(arg.from)
         /\ LET index == Find(ret.value, arg.substring)
            IN  index # npos =>
                  Erase(ret.value, index, Len(arg.substring)) # ret.value
    /\ (ret.at = "returned" /\ arg.mode = "ANY" /\ arg.substring # <<>>) =>
         Find(ret.value, arg.substring) = npos

\* C40 for the calls whose substring is not empty, or whose mode is not ANY
C40_TerminatesUnlessEmpty ==
  (arg.fn = "remove" /\ ~(arg.mode = "ANY" /\ arg.substring = <<>>)) =>
    /\ (ret.at = "loop") =>
         /\ ret.iterations <= Len(arg.from)
         /\ LET index == Find(ret.value, arg.substring)
            IN  index # npos =>
                  Len(Erase(ret.value, index, Len(arg.substring))) < Len(ret.value)
    /\ (ret.at = "returned" /\ arg.mode = "ANY") =>
         /\ Find(ret.value, arg.substring) = npos
         /\ ret.value = RemoveAny(arg.from, arg.substring)

\* the loop of remove has run more iterations than the string has characters
\* and is where it began
C40_Looping ==
  /\ arg.fn = "remove"
  /\ ret.at = "loop"
  /\ ret.iterations > Len(arg.from)
  /\ ret.value = arg.from

\* an erasure has made a new occurrence, which the loop has erased too
C40_ErasedTwice ==
  /\ arg.fn = "remove"
  /\ arg.from = <<"a", "a", "b", "b">>
  /\ arg.substring = <<"a", "b">>
  /\ ret.at = "returned"
  /\ ret.value = <<>>
====
